---- MODULE Spec2Model ----
(***************************************************************************)
(* A model of lmdb-cpp: the Environment / Database / Transaction layer in  *)
(* front of the LMDB engine (src/src/lmdb_cpp.cpp, src/include/*.hpp).     *)
(*                                                                         *)
(* The specifications of this module share its definitions:                *)
(*   Spec      one thread driving Transaction objects, Database reads and  *)
(*             map growth;                                                 *)
(*   SpecDb    one thread driving the Database convenience calls with      *)
(*             their map-full retry loops;                                 *)
(*   SpecGrow  two threads, one growing the map while the other opens and  *)
(*             ends read-write Transactions, at lock granularity;           *)
(*   SpecReg   two threads racing through Environment::instance and        *)
(*             Environment::database, at lock granularity, with shared_ptr *)
(*             reference counts and destructors;                           *)
(*   SpecCur   one thread holding Transactions and Cursors opened on them; *)
(*   SpecMulti one thread pointing a Transaction at two databases with     *)
(*             use();                                                      *)
(*   SpecRel   one thread obtaining handles from the registries and        *)
(*             letting go of them;                                         *)
(*   SpecBytes, SpecDup  one keyspace at byte level, without and with      *)
(*             duplicates, read and written through the value codec;       *)
(*   SpecCurRenew  reset and renew of Transactions and Cursors;            *)
(*   SpecWrite writes through Transactions and Cursors;                    *)
(*   SpecSetup the construction of Transactions;                           *)
(*   SpecMap   two threads in ThreadSafeMap::find_or_insert;               *)
(*   SpecMutex two threads in the member functions that take               *)
(*             Environment::mutex;                                         *)
(*   SpecExpand  the arithmetic of expand() and expand(pages);             *)
(*   SpecFlag  SpecRel with Database::transaction's lookup of its handle;  *)
(*   SpecLock  two threads between Database::mutex and the engine's writer *)
(*             lock;                                                       *)
(*   SpecPut   two threads in Database::put and Database::del.             *)
(***************************************************************************)
EXTENDS Integers, Sequences, FiniteSets, TLC

(***************************************************************************)
(* Error codes, src/include/lmdb_errors.hpp.                               *)
(***************************************************************************)
SUCCESS == 0
LMDB_ENV_NOT_OPEN == -40001
LMDB_ERROR == -40000
LMDB_EMPTY == -39999
LMDB_KEYEXIST == -30799
LMDB_NOTFOUND == -30798
LMDB_PANIC == -30795
LMDB_MAP_FULL == -30792
LMDB_TXN_FULL == -30788
LMDB_MAP_RESIZED == -30785
LMDB_BAD_TXN == -30782
LMDB_BAD_DBI == -30780

\* The codes of the layer's own, and the codes that are the engine's return
\* codes ("they map directly to LMDB return codes").
LayerCodes == {LMDB_ENV_NOT_OPEN, LMDB_ERROR, LMDB_EMPTY}
EngineCodes == LMDB_KEYEXIST..LMDB_BAD_DBI

\* The two conditions LMDB_CHECK_TXN_EXPAND reacts to.
FullCodes == {LMDB_MAP_FULL, LMDB_TXN_FULL}

\* An engine failure that is neither of the full conditions nor map-resized.
OtherFail == LMDB_PANIC

(***************************************************************************)
(* Bounds of the model.                                                    *)
(***************************************************************************)
\* Transaction objects the caller may hold at once.
MaxUserTxn == 1
\* growth_factor given to Environment::instance, in MB.
GrowthMB == 1
\* The largest map the engine grants, in MB: beyond it mdb_env_set_mapsize fails.
MaxMapMB == 3
\* Pages one stored entry occupies (large values on overflow pages).
EntryPages == 200

\* ms_psize as reported by mdb_env_stat.
PageSize == 4096

\* size_t arithmetic is modulo 2^64; the words of the model are SizeBits wide,
\* wide enough for every size the engine grants.
SizeBits == 23
SizeModulus == 2 ^ SizeBits

LMDB_SPACE_MULTIPLIER == 1024 * 1024

Names == {"a", "b"}
Keys == {"k1", "k2", "k3"}
Vals == {"v1", "v2"}
NoVal == "none"

\* Transaction 0 is the local Transaction of a Database convenience call.
TxnIds == 0..MaxUserTxn
UserTxn == 1..MaxUserTxn

Threads == {"t1", "t2"}

EmptyStore == [n \in Names |-> [k \in Keys |-> NoVal]]

VARIABLES
    mapsize,    \* me_mapsize of the engine environment, in bytes
    open_txns,  \* Environment::open_txns
    writer,     \* the Transaction holding the engine's writer lock, or -1
    store,      \* the committed content: name -> key -> value
    txns,       \* Transaction objects: id -> record
    pc,         \* where the thread is inside a Database convenience call
    arg,        \* the arguments of that call
    hist,       \* what happened inside the current or last convenience call
    last,       \* the outcome of the last completed operation
    present     \* history: the <<name, key>> pairs Database::put stored and
                \* neither Database::del nor Database::drop removed since

\* State of the two-thread specification of map growth.
VARIABLES
    g,              \* per thread: where it is in expand / detect_map_size /
                    \* txn_setup / commit, and its locals
    envMutex,       \* the holder of Environment::mutex, or "free"
    grownUnderTxn   \* history: the map size changed while the engine had a
                    \* read-write transaction open

growVars == <<g, envMutex, grownUnderTxn>>

\* State of the two-thread specification of the Database handle lock.
VARIABLES
    dbMutex         \* the holder of Database::mutex of one Database, or "free"

lockVars == <<dbMutex>>

\* State of the two-thread specification of the registries.
VARIABLES
    environments,   \* Environment::environments: path -> Environment object, 0 if absent
    envs,           \* the Environment objects, each with its databases registry
    dbos,           \* the Database objects
    stuck,          \* the registry locks held by threads that hang
    frames,         \* per thread: the frame of its running call
    held,           \* per thread: the handles its calls returned
    res,            \* per thread: the outcome of its last call
    dupCreated      \* history: an object was created for a key while another
                    \* object created for that key was alive

regVars == <<environments, envs, dbos, stuck, frames, held, res, dupCreated>>

\* State of the Cursor specification.
VARIABLES
    curs            \* the Cursor objects the user holds: id -> record

curVars == <<curs>>

\* State of the byte-level specifications: one keyspace seen as the bytes the
\* engine stores, and the Database handle opened on it.
VARIABLES
    bdb,            \* the Database handle: whether it is open, Database::compression,
                    \* and whether the keyspace was opened with MDB_DUPSORT
    raw,            \* the stored entries: a set of <<key bytes, value bytes>>
    ref,            \* history: key -> the value given to the last put of the key
    bio             \* the last call made on the handle and what it returned

byteVars == <<bdb, raw, ref, bio>>

\* State of the specification of ThreadSafeMap::find_or_insert.
VARIABLES
    tsm             \* one ThreadSafeMap: lock is the holder of m_mutex, m is
                    \* m_container, fr the frame of each thread's call, out
                    \* what each thread's last call returned; made counts the
                    \* factory runs per key and first is the value stored
                    \* first under it

mapVars == <<tsm>>

vars == <<mapsize, open_txns, writer, store, txns, pc, arg, hist, last, present,
          growVars, lockVars, byteVars, mapVars, regVars, curVars>>

NoWriter == -1

\* History of a read-only Transaction: the last get made before its first
\* reset.
NoSeen == [ok |-> FALSE, n |-> "a", k |-> "k1", err |-> SUCCESS, v |-> NoVal]

\* A slot holding no Transaction object.  view: the snapshot with the writes
\* of the Transaction; base: the committed content the snapshot was taken
\* from; seen, renewed, unchanged: history of a read-only Transaction, the
\* get before its first reset, whether it was renewed, and whether the
\* committed content at every renew was the content it was opened on.
NoTxn == [st |-> "none", ro |-> FALSE, db |-> "a", reset |-> FALSE,
          bad |-> FALSE, freed |-> FALSE, view |-> EmptyStore, base |-> EmptyStore,
          seen |-> NoSeen, renewed |-> FALSE, unchanged |-> FALSE]

\* nov: Database::put was called with MDB_NOOVERWRITE.
NoArg == [op |-> "none", name |-> "a", key |-> "k1", val |-> NoVal, nov |-> FALSE]
\* attempts: Transactions begun; expands: expand() calls that succeeded; full:
\* a full condition was met; expFailed, expErr: an expand() call failed, and
\* with what; other: a failure that is no full condition was met;
\* retriedAfterFail: the call jumped back to try_again after a failed expand();
\* done, how, ret: the call has ended, how, and with which error; fail: the
\* error of the engine call that met the failure that is no full condition;
\* entry: the committed content when the call was entered; committed:
\* Database::drop went on to txn->commit(), fail being what mdb_drop returned.
NoHist == [attempts |-> 0, expands |-> 0, full |-> FALSE, expFailed |-> FALSE,
           expErr |-> SUCCESS, other |-> FALSE, retriedAfterFail |-> FALSE,
           done |-> FALSE, how |-> "ret", ret |-> SUCCESS, fail |-> SUCCESS,
           entry |-> EmptyStore, committed |-> FALSE]
\* Objects of the registry specification.  An object id is used once.
\* The optional arguments of Environment::instance (flags, mode,
\* growth_factor, max_databases) and of Environment::database
\* (enable_compression, flags): their defaults, or other values.  An object
\* keeps in opts the arguments it was constructed with.
Opts == {"default", "other"}
MaxEnvObjs == 3
MaxDbObjs == 2
Paths == {"p"}
EnvIds == 1..MaxEnvObjs
DbIds == 1..MaxDbObjs
\* The order in which std::map visits the names.
NameSeq == <<"a", "b">>
\* The lock of Environment::environments; the lock of the databases registry
\* of Environment e is named e.
EnvironmentsLock == 0

\* st: "unborn", "open", "failed" (mdb_env_open failed and the handle was
\* closed), "dying" (a thread hangs in the destructor), "closed".  log: the
\* steps the destructor has completed, in order.  closes: the mdb_env_close
\* calls made on the engine handle; late: the handle was passed to the engine
\* after it had been closed.
NoEnvObj == [st |-> "unborn", refs |-> 0, path |-> "p", dbs |-> [n \in Names |-> 0],
             dbi |-> {}, log |-> <<>>, opts |-> "default", closes |-> 0, late |-> FALSE]

\* The steps of Environment::~Environment.
TeardownSteps == <<"databases.clear", "flush", "mdb_env_close", "environments.erase">>
\* env: the member Database::environment; owner: the Environment whose
\* database() call created the object.
NoDbObj == [st |-> "unborn", refs |-> 0, name |-> "a", env |-> 0, owner |-> 0,
            opts |-> "default"]
\* top: the call the user made; caller: who called instance(); db, env, dbl:
\* the locals `db` of instance() and `_env`, `db` of database(); absent: the
\* call found its key absent; conc: the same call for the same key ran in
\* another thread at the same time; opts: the optional arguments of the call;
\* reg: the object that was registered for the key when the user made the
\* call, 0 when there was none; on: the Database whose transaction() was
\* called.
NoFrame == [pc |-> "idle", top |-> "none", caller |-> "user", path |-> "p", db |-> 0,
            self |-> 0, name |-> "a", env |-> 0, dbl |-> 0, absent |-> FALSE,
            conc |-> FALSE, opts |-> "default", reg |-> 0, on |-> 0]
NoRes == [call |-> "none", how |-> "none", obj |-> 0, absent |-> FALSE, conc |-> FALSE,
          engFail |-> FALSE, opts |-> "default", reg |-> 0, on |-> 0]
NoHeld == [envs |-> {}, dbs |-> {}]

\* A thread of the map-growth specification: i counts the mdb_txn_begin
\* calls of txn_setup, seen is the counter value open_transactions() returned,
\* caller tells whether detect_map_size was called by the user or by txn_setup,
\* pages is the argument of expand(pages) and size the me_mapsize info() returned;
\* ro is the readonly argument of the Transaction being constructed, rw tells
\* that the thread holds an open read-write Transaction it was given.
NoG == [pc |-> "idle", call |-> "none", caller |-> "user", seen |-> 0, i |-> 0,
        ret |-> SUCCESS, pages |-> 0, size |-> 0, ro |-> FALSE, rw |-> FALSE]
\* dead: the Transaction had no live handle; dirty: it held uncommitted
\* writes; kept: the committed content afterwards is the content the
\* Transaction was opened on; stale: the operation was made on a Cursor whose
\* engine transaction had ended; rw: the handle was live and read-write;
\* unreg: by how much the operation lowered Environment::open_txns; all: the
\* committed content afterwards is the whole working copy of the Transaction;
\* multi: the Transaction held uncommitted writes in every database; reset:
\* the Transaction was reset and not yet renewed when the operation was
\* called; again: the get repeats, after reset and renew and with the
\* committed content unchanged, the get recorded in the Transaction; rs: the
\* answers mdb_txn_begin gave to the construction of a Transaction, in
\* order; detects: the detect_map_size() calls the construction made.
NoLast == [op |-> "none", id |-> 0, how |-> "ret", err |-> SUCCESS, eng |-> FALSE,
           dead |-> FALSE, dirty |-> FALSE, kept |-> FALSE, val |-> NoVal,
           stale |-> FALSE, rw |-> FALSE, unreg |-> 0, all |-> FALSE, multi |-> FALSE,
           reset |-> FALSE, again |-> FALSE, rs |-> <<>>, detects |-> 0]

\* Byte strings: sequences of bytes of at most MaxLen bytes over ByteValues.
MaxLen == 3
ByteValues == {0, 1}
ByteStrings == UNION {[1..n -> ByteValues] : n \in 0..MaxLen}
\* The value of ref for a key that was never put, or was deleted.
Absent == <<-1>>
\* No Database handle.  comp: Database::compression; dup: MDB_DUPSORT.
NoHandle == [st |-> "none", comp |-> FALSE, dup |-> FALSE]
\* op: the call; k, v: its arguments; how: "ret" or "hang"; err, key, val,
\* list: what it returned; n: the count returned; found: the bool returned;
\* ign: the ignore_duplicates argument.
NoIo == [op |-> "none", k |-> <<>>, v |-> <<>>, how |-> "ret", err |-> SUCCESS,
         key |-> <<>>, val |-> <<>>, list |-> <<>>, n |-> 0, found |-> FALSE,
         ign |-> FALSE]

\* The keys of the ThreadSafeMap; its values are the positive numbers the
\* factory runs produce, 0 stands for no value.
MapKeys == {"x", "y"}
NoCall == [pc |-> "idle", key |-> "x", value |-> 0, conc |-> FALSE]
NoOut == [key |-> "x", value |-> 0, conc |-> FALSE]
NoMap == [lock |-> "free", m |-> [k \in MapKeys |-> 0], made |-> [k \in MapKeys |-> 0],
          first |-> [k \in MapKeys |-> 0], fr |-> [t \in Threads |-> NoCall],
          out |-> [t \in Threads |-> NoOut]]

\* Cursor objects.
MaxCursors == 1
CurIds == 1..MaxCursors
\* A slot holding no Cursor object.  txn: the Transaction it was opened on;
\* ro: Cursor::m_readonly; stale: the engine transaction of the cursor has
\* ended; pos: the key the cursor stands on; late: the Transaction had
\* already been renewed when the Cursor was opened.
NoCur == [st |-> "none", txn |-> 0, ro |-> FALSE, stale |-> FALSE, pos |-> NoVal,
          late |-> FALSE]

(***************************************************************************)
(* The engine: page accounting of the memory map.                          *)
(***************************************************************************)
Entries(view) == {nk \in Names \X Keys : view[nk[1]][nk[2]] # NoVal}

\* Entries the map has room for.
Capacity(ms) == (ms \div PageSize) \div EntryPages

\* A write (put, del, drop) copies a page before it changes it: it needs one
\* entry's worth of free pages, else the engine reports a full condition.
HasRoom(view, ms) == Cardinality(Entries(view)) + 1 <= Capacity(ms)

\* The pages of an environment that stores nothing: its two meta pages.
MinSize == 2 * PageSize

\* mdb_env_set_mapsize(env, size): the engine grants sizes up to MaxMapMB, and
\* silently rounds a size below the pages in use up to them.  The
\* specifications that store entries never ask for a size below the initial
\* one.
mdb_env_set_mapsize(size, ms) ==
    IF size > MaxMapMB * LMDB_SPACE_MULTIPLIER
    THEN [err |-> OtherFail, ms |-> ms]
    ELSE [err |-> SUCCESS, ms |-> IF size < MinSize THEN MinSize ELSE size]

(***************************************************************************)
(* Environment.                                                            *)
(***************************************************************************)
\* Environment::memory_to_pages: ceil(double(memory) / double(ms_psize)).
memory_to_pages(memory) == (memory + PageSize - 1) \div PageSize

\* An Environment::expand(pages) without the test of open_transactions().
expand_pages_unguarded(pages, ms, ot) ==
    LET new_size == ((PageSize * pages) + ms) % SizeModulus
        r == mdb_env_set_mapsize(new_size, ms)
    IN  [err |-> r.err, ms |-> r.ms, eng |-> TRUE]

\* Environment::expand(pages): refused while read-write transactions are
\* registered, else the map grows by pages * ms_psize.
expand_pages(pages, ms, ot) ==
    IF ot # 0
    THEN [err |-> LMDB_ERROR, ms |-> ms, eng |-> FALSE]
    ELSE LET new_size == ((PageSize * pages) + ms) % SizeModulus
             r == mdb_env_set_mapsize(new_size, ms)
         IN  [err |-> r.err, ms |-> r.ms, eng |-> TRUE]

\* Environment::expand(): by the growth factor.
expand(ms, ot) == expand_pages(memory_to_pages(GrowthMB * LMDB_SPACE_MULTIPLIER), ms, ot)

\* Environment::detect_map_size: mdb_env_set_mapsize(env, 0) adopts the size
\* ext another process gave the map.
detect_map_size(ms, ot, ext) ==
    IF ot # 0
    THEN [err |-> LMDB_ERROR, ms |-> ms, eng |-> FALSE]
    ELSE [err |-> SUCCESS, ms |-> ext, eng |-> TRUE]

\* Environment::transaction_register / transaction_unregister.
transaction_register(ot) == ot + 1
transaction_unregister(ot) == IF ot > 0 THEN ot - 1 ELSE ot

(***************************************************************************)
(* Transaction::txn_setup: up to 3 mdb_txn_begin calls; rs are the engine's *)
(* answers in order, ext the map size another process set.                 *)
(***************************************************************************)
BeginSeqs ==
    { <<SUCCESS>>, <<LMDB_MAP_RESIZED, SUCCESS>>,
      <<LMDB_MAP_RESIZED, LMDB_MAP_RESIZED, SUCCESS>>,
      <<LMDB_MAP_RESIZED, LMDB_MAP_RESIZED, LMDB_MAP_RESIZED>>,
      <<OtherFail>>, <<LMDB_MAP_RESIZED, OtherFail>>, <<OtherFail, SUCCESS>> }

ExtSizes(ms) ==
    {ms} \cup {s \in {ms + GrowthMB * LMDB_SPACE_MULTIPLIER} :
                  s <= MaxMapMB * LMDB_SPACE_MULTIPLIER}

RECURSIVE txn_setup_from(_, _, _, _, _)
txn_setup_from(i, rs, ms, ot, ext) ==
    IF rs[i + 1] = SUCCESS
    THEN [ok |-> TRUE, ms |-> ms, begins |-> i + 1, detects |-> i]
    ELSE IF rs[i + 1] = LMDB_MAP_RESIZED /\ i < 2
         THEN LET d == detect_map_size(ms, ot, ext)
              IN  IF d.err # SUCCESS
                  THEN [ok |-> FALSE, ms |-> ms, begins |-> i + 1, detects |-> i + 1]
                  ELSE txn_setup_from(i + 1, rs, d.ms, ot, ext)
         ELSE [ok |-> FALSE, ms |-> ms, begins |-> i + 1, detects |-> i]

RECURSIVE txn_setup_any_from(_, _, _, _, _)
txn_setup_any_from(i, rs, ms, ot, ext) ==
    IF rs[i + 1] = SUCCESS
    THEN [ok |-> TRUE, ms |-> ms, begins |-> i + 1, detects |-> i]
    ELSE IF i < 2 /\ i + 1 < Len(rs)
         THEN txn_setup_any_from(i + 1, rs, ms, ot, ext)
         ELSE [ok |-> FALSE, ms |-> ms, begins |-> i + 1, detects |-> i]

\* A construction that tries again after any failure of mdb_txn_begin.
txn_setup_retrying_any(rs, ms, ot, ext) == txn_setup_any_from(0, rs, ms, ot, ext)

txn_setup(rs, ms, ot, ext) == txn_setup_from(0, rs, ms, ot, ext)

\* The Transaction object a successful construction leaves behind.
NewTxn(name, ro) ==
    [st |-> "live", ro |-> ro, db |-> name, reset |-> FALSE, bad |-> FALSE,
     freed |-> FALSE, view |-> store, base |-> store,
     seen |-> NoSeen, renewed |-> FALSE, unchanged |-> FALSE]

\* A commit that leaves the handle in place.
Ended_keeps_handle(t) == t

\* A Transaction object whose handle is gone (txn = nullptr).
Ended(t) == [t EXCEPT !.st = "dead", !.reset = FALSE, !.bad = FALSE,
                      !.freed = FALSE, !.view = EmptyStore, !.base = EmptyStore,
                      !.seen = NoSeen, !.renewed = FALSE, !.unchanged = FALSE]

Live(id) == txns[id].st = "live"
IsRW(id) == ~txns[id].ro

\* The engine refuses data operations on a reset or failed transaction.
Blocked(t) == t.reset \/ t.bad

Init ==
    /\ mapsize = GrowthMB * LMDB_SPACE_MULTIPLIER
    /\ open_txns = 0
    /\ writer = NoWriter
    /\ store = EmptyStore
    /\ txns = [i \in TxnIds |-> NoTxn]
    /\ pc = "idle"
    /\ arg = NoArg
    /\ hist = NoHist
    /\ last = NoLast
    /\ present = {}
    /\ g = [t \in Threads |-> NoG]
    /\ envMutex = "free"
    /\ grownUnderTxn = FALSE
    /\ dbMutex = "free"
    /\ environments = [p \in Paths |-> 0]
    /\ envs = [e \in EnvIds |-> NoEnvObj]
    /\ dbos = [d \in DbIds |-> NoDbObj]
    /\ stuck = {}
    /\ frames = [t \in Threads |-> NoFrame]
    /\ held = [t \in Threads |-> NoHeld]
    /\ res = [t \in Threads |-> NoRes]
    /\ dupCreated = FALSE
    /\ curs = [c \in CurIds |-> NoCur]
    /\ bdb = NoHandle
    /\ raw = {}
    /\ ref = [k \in ByteStrings |-> Absent]
    /\ bio = NoIo
    /\ tsm = NoMap

(***************************************************************************)
(* Database::transaction(readonly) called by the user: a new Transaction   *)
(* object in slot id.  A read-write begin waits for the engine's writer    *)
(* lock.                                                                   *)
(***************************************************************************)
TxnOpen(id, name, ro, rs, ext) ==
    /\ pc = "idle"
    /\ txns[id].st = "none"
    /\ ro \/ writer = NoWriter
    /\ LET s == txn_setup(rs, mapsize, open_txns, ext)
       IN  /\ mapsize' = s.ms
           /\ IF s.ok
              THEN /\ txns' = [txns EXCEPT ![id] = NewTxn(name, ro)]
                   /\ open_txns' = IF ro THEN open_txns ELSE transaction_register(open_txns)
                   /\ writer' = IF ro THEN writer ELSE id
                   /\ last' = [NoLast EXCEPT !.op = "open", !.id = id, !.eng = TRUE,
                                             !.rs = SubSeq(rs, 1, s.begins),
                                             !.detects = s.detects]
              ELSE /\ UNCHANGED <<txns, open_txns, writer>>
                   /\ last' = [NoLast EXCEPT !.op = "open", !.id = id, !.how = "throw",
                                             !.eng = TRUE,
                                             !.rs = SubSeq(rs, 1, s.begins),
                                             !.detects = s.detects]
    /\ UNCHANGED <<store, pc, arg, hist, present, growVars, lockVars, byteVars, mapVars, regVars, curVars>>

(***************************************************************************)
(* The engine's data operations on a transaction record t.  fc is the      *)
(* full condition the engine reports when the map has no room.             *)
(***************************************************************************)
\* mdb_put: a failed write leaves the transaction in its error state.
mdb_put(t, k, v, ms, fc) ==
    IF Blocked(t) THEN [err |-> LMDB_BAD_TXN, t |-> t]
    ELSE IF t.ro THEN [err |-> OtherFail, t |-> t]
    ELSE IF ~HasRoom(t.view, ms) THEN [err |-> fc, t |-> [t EXCEPT !.bad = TRUE]]
    ELSE [err |-> SUCCESS,
          t |-> [t EXCEPT !.view[t.db][k] = v,
                          !.freed = t.freed \/ t.view[t.db][k] # NoVal]]

\* mdb_put with or without MDB_NOOVERWRITE, which refuses a key that is
\* present.
mdb_put_flags(t, k, v, nov, ms, fc) ==
    IF nov /\ ~Blocked(t) /\ ~t.ro /\ t.view[t.db][k] # NoVal
    THEN [err |-> LMDB_KEYEXIST, t |-> t]
    ELSE mdb_put(t, k, v, ms, fc)

\* An mdb_del that reports success for a key that is absent.
mdb_del_ignoring_missing(t, k, ms, fc) ==
    IF Blocked(t) THEN [err |-> LMDB_BAD_TXN, t |-> t]
    ELSE IF t.ro THEN [err |-> OtherFail, t |-> t]
    ELSE IF t.view[t.db][k] = NoVal THEN [err |-> SUCCESS, t |-> t]
    ELSE IF ~HasRoom(t.view, ms) THEN [err |-> fc, t |-> [t EXCEPT !.bad = TRUE]]
    ELSE [err |-> SUCCESS, t |-> [t EXCEPT !.view[t.db][k] = NoVal, !.freed = TRUE]]

\* mdb_del with a null value: removes the key.
mdb_del(t, k, ms, fc) ==
    IF Blocked(t) THEN [err |-> LMDB_BAD_TXN, t |-> t]
    ELSE IF t.ro THEN [err |-> OtherFail, t |-> t]
    ELSE IF t.view[t.db][k] = NoVal THEN [err |-> LMDB_NOTFOUND, t |-> t]
    ELSE IF ~HasRoom(t.view, ms) THEN [err |-> fc, t |-> [t EXCEPT !.bad = TRUE]]
    ELSE [err |-> SUCCESS, t |-> [t EXCEPT !.view[t.db][k] = NoVal, !.freed = TRUE]]

\* mdb_get.
mdb_get(t, k) ==
    IF Blocked(t) THEN [err |-> LMDB_BAD_TXN, val |-> NoVal]
    ELSE IF t.view[t.db][k] = NoVal THEN [err |-> LMDB_NOTFOUND, val |-> NoVal]
    ELSE [err |-> SUCCESS, val |-> t.view[t.db][k]]

\* mdb_drop(txn, dbi, 0): empties the keyspace.  refuse: the engine rejects
\* the call before it touches the transaction (a keyspace handle it does not
\* accept); a failure while dropping leaves the transaction in its error
\* state.
mdb_drop(t, name, ms, fc, refuse) ==
    IF Blocked(t) THEN [err |-> LMDB_BAD_TXN, t |-> t]
    ELSE IF refuse THEN [err |-> LMDB_BAD_DBI, t |-> t]
    ELSE IF ~HasRoom(t.view, ms) THEN [err |-> fc, t |-> [t EXCEPT !.bad = TRUE]]
    ELSE [err |-> SUCCESS,
          t |-> [t EXCEPT !.view[name] = [k \in Keys |-> NoVal], !.freed = TRUE]]

\* An mdb_txn_commit that publishes the writes made to the database in use
\* only.
mdb_txn_commit_current_db(t, st, ms, fc, io) ==
    IF t.ro THEN [err |-> SUCCESS, store |-> st]
    ELSE IF t.bad THEN [err |-> LMDB_BAD_TXN, store |-> st]
    ELSE IF t.freed /\ ~HasRoom(t.view, ms) THEN [err |-> fc, store |-> st]
    ELSE IF io /\ t.view # st THEN [err |-> OtherFail, store |-> st]
    ELSE [err |-> SUCCESS, store |-> [st EXCEPT ![t.db] = t.view[t.db]]]

\* mdb_txn_commit: the outcome and the committed content afterwards.  A
\* transaction that freed pages needs room for its free list; io is a write
\* failure of the commit itself.
mdb_txn_commit(t, st, ms, fc, io) ==
    IF t.ro THEN [err |-> SUCCESS, store |-> st]
    ELSE IF t.bad THEN [err |-> LMDB_BAD_TXN, store |-> st]
    ELSE IF t.freed /\ ~HasRoom(t.view, ms) THEN [err |-> fc, store |-> st]
    ELSE IF io /\ t.view # st THEN [err |-> OtherFail, store |-> st]
    ELSE [err |-> SUCCESS, store |-> t.view]

(***************************************************************************)
(* Transaction.                                                            *)
(***************************************************************************)
\* *txn with txn == nullptr: undefined behaviour.  The build either faults
\* or hands the engine an indeterminate handle.
NullDeref(id, op) ==
    \E how \in {"crash", "ret"} :
        /\ last' = [NoLast EXCEPT !.op = op, !.id = id, !.how = how, !.dead = TRUE,
                                  !.eng = (how = "ret"),
                                  !.err = IF how = "ret" THEN OtherFail ELSE SUCCESS]
        /\ pc' = IF how = "crash" THEN "crashed" ELSE pc
        /\ UNCHANGED <<mapsize, open_txns, writer, store, txns, arg, hist, present, growVars, lockVars, byteVars, mapVars, regVars, curVars>>

Held(id) == pc = "idle" /\ txns[id].st # "none"

TxnPut_expanding(id, k, v, fc) ==
    /\ Held(id)
    /\ Live(id)
    /\ LET r == mdb_put(txns[id], k, v, mapsize, fc)
       IN  /\ txns' = [txns EXCEPT ![id] = r.t]
           /\ last' = [NoLast EXCEPT !.op = "put", !.id = id, !.err = r.err, !.eng = TRUE]
           /\ mapsize' = IF r.err \in FullCodes
                          THEN mapsize + GrowthMB * LMDB_SPACE_MULTIPLIER ELSE mapsize
    /\ UNCHANGED <<open_txns, writer, store, pc, arg, hist, present, growVars, lockVars, byteVars, mapVars,
                   regVars, curVars>>

\* Transaction::put.
TxnPut(id, k, v, fc) ==
    /\ Held(id)
    /\ IF ~Live(id) THEN NullDeref(id, "put")
       ELSE LET r == mdb_put(txns[id], k, v, mapsize, fc)
            IN  /\ txns' = [txns EXCEPT ![id] = r.t]
                /\ last' = [NoLast EXCEPT !.op = "put", !.id = id, !.reset = txns[id].reset, !.err = r.err,
                                          !.eng = TRUE]
                /\ UNCHANGED <<mapsize, open_txns, writer, store, pc, arg, hist, present, growVars, lockVars, byteVars, mapVars, regVars, curVars>>

\* Transaction::del(key).
TxnDel(id, k, fc) ==
    /\ Held(id)
    /\ IF ~Live(id) THEN NullDeref(id, "del")
       ELSE LET r == mdb_del(txns[id], k, mapsize, fc)
            IN  /\ txns' = [txns EXCEPT ![id] = r.t]
                /\ last' = [NoLast EXCEPT !.op = "del", !.id = id, !.reset = txns[id].reset, !.err = r.err,
                                          !.eng = TRUE]
                /\ UNCHANGED <<mapsize, open_txns, writer, store, pc, arg, hist, present, growVars, lockVars, byteVars, mapVars, regVars, curVars>>

\* Transaction::get.
TxnGet(id, k) ==
    /\ Held(id)
    /\ IF ~Live(id) THEN NullDeref(id, "get")
       ELSE LET t == txns[id]
                r == mdb_get(t, k)
            IN  /\ last' = [NoLast EXCEPT !.op = "get", !.id = id, !.err = r.err,
                                          !.eng = TRUE, !.val = r.val,
                                          !.reset = t.reset,
                                          !.again = /\ t.renewed /\ t.unchanged
                                                    /\ ~t.reset /\ t.seen.ok
                                                    /\ t.seen.n = t.db /\ t.seen.k = k]
                /\ txns' = IF t.ro /\ ~t.renewed /\ ~t.reset
                           THEN [txns EXCEPT ![id].seen = [ok |-> TRUE, n |-> t.db, k |-> k,
                                                           err |-> r.err, v |-> r.val]]
                           ELSE txns
                /\ UNCHANGED <<mapsize, open_txns, writer, store, pc, arg, hist, present, growVars, lockVars, byteVars, mapVars, regVars, curVars>>

\* Transaction::exists: true exactly when mdb_get succeeds.
TxnExists(id, k) ==
    /\ Held(id)
    /\ IF ~Live(id) THEN NullDeref(id, "exists")
       ELSE LET r == mdb_get(txns[id], k)
            IN  /\ last' = [NoLast EXCEPT !.op = "exists", !.id = id, !.reset = txns[id].reset, !.eng = TRUE,
                                          !.val = IF r.err = SUCCESS THEN "true" ELSE "false"]
                /\ UNCHANGED <<mapsize, open_txns, writer, store, txns, pc, arg, hist, present, growVars, lockVars, byteVars, mapVars, regVars, curVars>>

\* Transaction::cursor: the Cursor constructor calls mdb_cursor_open(*txn, ...)
\* and throws when the engine refuses.
TxnCursor(id) ==
    /\ Held(id)
    /\ IF ~Live(id) THEN NullDeref(id, "cursor")
       ELSE /\ last' = [NoLast EXCEPT !.op = "cursor", !.id = id, !.reset = txns[id].reset, !.eng = TRUE,
                                      !.how = IF Blocked(txns[id]) THEN "throw" ELSE "ret"]
            /\ UNCHANGED <<mapsize, open_txns, writer, store, txns, pc, arg, hist, present, growVars, lockVars, byteVars, mapVars, regVars, curVars>>

\* Transaction::id.
TxnId(id) ==
    /\ Held(id)
    /\ last' = [NoLast EXCEPT !.op = "id", !.id = id, !.reset = txns[id].reset, !.dead = ~Live(id),
                              !.eng = Live(id),
                              !.err = IF Live(id) THEN SUCCESS ELSE LMDB_BAD_TXN]
    /\ UNCHANGED <<mapsize, open_txns, writer, store, txns, pc, arg, hist, present, growVars, lockVars, byteVars, mapVars, regVars, curVars>>

\* The Transaction holds writes to every database that are not committed.
WroteAll(t) == t.st = "live" /\ ~t.ro /\ \A n \in Names : t.view[n] # t.base[n]

\* mdb_txn_commit and mdb_txn_abort end the engine transaction under every
\* cursor opened on it; neither Transaction::commit nor Transaction::abort
\* touches Cursor::cursor.
EndCursors(cs, id) ==
    [c \in CurIds |-> IF cs[c].st = "open" /\ cs[c].txn = id
                      THEN [cs[c] EXCEPT !.stale = TRUE] ELSE cs[c]]

\* Transaction::commit.
TxnCommit(id, fc, io) ==
    /\ Held(id)
    /\ IF ~Live(id)
       THEN /\ last' = [NoLast EXCEPT !.op = "commit", !.id = id, !.dead = TRUE,
                                      !.err = LMDB_BAD_TXN]
            /\ UNCHANGED <<open_txns, writer, store, txns>>
       ELSE LET r == mdb_txn_commit(txns[id], store, mapsize, fc, io)
            IN  /\ store' = r.store
                /\ open_txns' = IF IsRW(id) THEN transaction_unregister(open_txns)
                                ELSE open_txns
                /\ writer' = IF IsRW(id) THEN NoWriter ELSE writer
                /\ txns' = [txns EXCEPT ![id] = Ended(txns[id])]
                /\ last' = [NoLast EXCEPT !.op = "commit", !.id = id, !.err = r.err,
                                          !.reset = txns[id].reset,
                                          !.eng = TRUE, !.rw = IsRW(id),
                                          !.unreg = open_txns - open_txns',
                                          !.kept = r.store = txns[id].base,
                                          !.all = r.store = txns[id].view,
                                          !.multi = WroteAll(txns[id])]
    /\ curs' = IF Live(id) THEN EndCursors(curs, id) ELSE curs
    /\ UNCHANGED <<mapsize, pc, arg, hist, present, growVars, lockVars, byteVars, mapVars, regVars>>

\* A Transaction::abort that publishes the working copy instead of
\* discarding it.
abort_publishing(id) ==
    IF ~Live(id)
    THEN [t |-> txns[id], ot |-> open_txns, w |-> writer, store |-> store]
    ELSE [t |-> Ended(txns[id]),
          ot |-> IF IsRW(id) THEN transaction_unregister(open_txns) ELSE open_txns,
          w |-> IF IsRW(id) THEN NoWriter ELSE writer,
          store |-> IF IsRW(id) THEN txns[id].view ELSE store]

\* A Transaction::abort that leaves the counter of the Environment alone.
abort_without_unregister(id) ==
    IF ~Live(id)
    THEN [t |-> txns[id], ot |-> open_txns, w |-> writer, store |-> store]
    ELSE [t |-> Ended(txns[id]),
          ot |-> open_txns,
          w |-> IF IsRW(id) THEN NoWriter ELSE writer,
          store |-> store]

\* What Transaction::abort leaves of the Transaction, the counter, the
\* writer lock and the committed content: mdb_txn_abort discards the
\* working copy.
abort(id) ==
    IF ~Live(id)
    THEN [t |-> txns[id], ot |-> open_txns, w |-> writer, store |-> store]
    ELSE [t |-> Ended(txns[id]),
          ot |-> IF IsRW(id) THEN transaction_unregister(open_txns) ELSE open_txns,
          w |-> IF IsRW(id) THEN NoWriter ELSE writer,
          store |-> store]

Dirty(id) == Live(id) /\ IsRW(id) /\ txns[id].view # store

\* Transaction::abort called by the user.
TxnAbort(id) ==
    /\ Held(id)
    /\ LET a == abort(id)
       IN  /\ txns' = [txns EXCEPT ![id] = a.t]
           /\ open_txns' = a.ot
           /\ writer' = a.w
           /\ store' = a.store
           /\ last' = [NoLast EXCEPT !.op = "abort", !.id = id, !.dead = ~Live(id),
                                     !.eng = Live(id), !.dirty = Dirty(id),
                                     !.kept = Live(id) /\ a.store = txns[id].base,
                                     !.rw = Live(id) /\ IsRW(id),
                                     !.unreg = open_txns - a.ot,
                                     !.multi = WroteAll(txns[id])]
    /\ curs' = IF Live(id) THEN EndCursors(curs, id) ELSE curs
    /\ UNCHANGED <<mapsize, pc, arg, hist, present, growVars, lockVars, byteVars, mapVars, regVars>>

\* Transaction::~Transaction: the last owner lets go of the object.
TxnDestroy(id) ==
    /\ Held(id)
    /\ LET a == abort(id)
       IN  /\ txns' = [txns EXCEPT ![id] = NoTxn]
           /\ open_txns' = a.ot
           /\ writer' = a.w
           /\ store' = a.store
           /\ last' = [NoLast EXCEPT !.op = "destroy", !.id = id, !.dead = ~Live(id),
                                     !.eng = Live(id), !.dirty = Dirty(id),
                                     !.kept = Live(id) /\ a.store = txns[id].base,
                                     !.rw = Live(id) /\ IsRW(id),
                                     !.unreg = open_txns - a.ot,
                                     !.multi = WroteAll(txns[id])]
    /\ curs' = IF Live(id) THEN EndCursors(curs, id) ELSE curs
    /\ UNCHANGED <<mapsize, pc, arg, hist, present, growVars, lockVars, byteVars, mapVars, regVars>>

\* Transaction::reset: throws unless the handle is live and read-only.
TxnReset(id) ==
    /\ Held(id)
    /\ IF ~Live(id) \/ IsRW(id)
       THEN /\ last' = [NoLast EXCEPT !.op = "reset", !.id = id, !.how = "throw",
                                      !.dead = ~Live(id)]
            /\ UNCHANGED txns
       ELSE /\ txns' = [txns EXCEPT ![id].reset = TRUE, ![id].view = EmptyStore]
            /\ last' = [NoLast EXCEPT !.op = "reset", !.id = id, !.eng = TRUE]
    /\ UNCHANGED <<mapsize, open_txns, writer, store, pc, arg, hist, present, growVars, lockVars, byteVars, mapVars, regVars, curVars>>

\* An mdb_txn_renew that takes no new snapshot.
mdb_txn_renew_without_snapshot(t, st) ==
    [t EXCEPT !.reset = FALSE, !.renewed = TRUE,
              !.unchanged = (t.renewed => t.unchanged) /\ st = t.base]

\* mdb_txn_renew on a reset transaction: a new snapshot of the committed
\* content.
mdb_txn_renew(t, st) ==
    [t EXCEPT !.reset = FALSE, !.view = st, !.base = st, !.renewed = TRUE,
              !.unchanged = (t.renewed => t.unchanged) /\ st = t.base]

\* Transaction::renew: mdb_txn_renew gives a reset transaction a new snapshot
\* and refuses one that was not reset.
TxnRenew(id) ==
    /\ Held(id)
    /\ IF ~Live(id) \/ IsRW(id)
       THEN /\ last' = [NoLast EXCEPT !.op = "renew", !.id = id, !.err = LMDB_BAD_TXN,
                                      !.dead = ~Live(id)]
            /\ UNCHANGED txns
       ELSE IF txns[id].reset
            THEN /\ txns' = [txns EXCEPT ![id] = mdb_txn_renew(txns[id], store)]
                 /\ last' = [NoLast EXCEPT !.op = "renew", !.id = id, !.eng = TRUE]
            ELSE /\ last' = [NoLast EXCEPT !.op = "renew", !.id = id, !.eng = TRUE,
                                           !.err = OtherFail]
                 /\ UNCHANGED txns
    /\ UNCHANGED <<mapsize, open_txns, writer, store, pc, arg, hist, present, growVars, lockVars, byteVars, mapVars, regVars, curVars>>

\* Transaction::use.
TxnUse(id, name) ==
    /\ Held(id)
    /\ txns[id].db # name
    /\ txns' = [txns EXCEPT ![id].db = name]
    /\ last' = [NoLast EXCEPT !.op = "use", !.id = id, !.dead = ~Live(id)]
    /\ UNCHANGED <<mapsize, open_txns, writer, store, pc, arg, hist, present, growVars, lockVars, byteVars, mapVars, regVars, curVars>>

\* The Transaction operations a caller may invoke, on databases NS and keys KS.
TxnStep(NS, KS) ==
    \/ \E id \in UserTxn, n \in NS, ro \in BOOLEAN, rs \in BeginSeqs :
          \E ext \in ExtSizes(mapsize) : TxnOpen(id, n, ro, rs, ext)
    \/ \E id \in UserTxn, k \in KS, v \in Vals, fc \in FullCodes : TxnPut(id, k, v, fc)
    \/ \E id \in UserTxn, k \in KS, fc \in FullCodes : TxnDel(id, k, fc)
    \/ \E id \in UserTxn, k \in KS : TxnGet(id, k)
    \/ \E id \in UserTxn, k \in KS : TxnExists(id, k)
    \/ \E id \in UserTxn : TxnCursor(id)
    \/ \E id \in UserTxn : TxnId(id)
    \/ \E id \in UserTxn, fc \in FullCodes, io \in BOOLEAN : TxnCommit(id, fc, io)
    \/ \E id \in UserTxn : TxnAbort(id)
    \/ \E id \in UserTxn : TxnDestroy(id)
    \/ \E id \in UserTxn : TxnReset(id)
    \/ \E id \in UserTxn : TxnRenew(id)

(***************************************************************************)
(* Database convenience calls.  Their local Transaction lives in slot 0.   *)
(***************************************************************************)
\* Counters of hist saturate here.
MaxCount == 3

Bump(n) == IF n < MaxCount THEN n + 1 ELSE n

\* A macro that expands but never jumps back to the label.
LMDB_CHECK_TXN_EXPAND_no_retry(error, ms, ot) ==
    IF error \in FullCodes
    THEN LET exp_error == expand(ms, ot)
         IN  [full |-> TRUE, exp |-> exp_error.err, ms |-> exp_error.ms,
              again |-> FALSE]
    ELSE [full |-> FALSE, exp |-> SUCCESS, ms |-> ms, again |-> FALSE]

\* LMDB_CHECK_TXN_EXPAND(error, env, txn, label), with ot the counter after
\* txn->abort(): whether the error was a full condition, what expand()
\* returned, the map afterwards, and whether the macro jumps to the label.
LMDB_CHECK_TXN_EXPAND(error, ms, ot) ==
    IF error \in FullCodes
    THEN LET exp_error == expand(ms, ot)
         IN  [full |-> TRUE, exp |-> exp_error.err, ms |-> exp_error.ms,
              again |-> exp_error.err = SUCCESS]
    ELSE [full |-> FALSE, exp |-> SUCCESS, ms |-> ms, again |-> FALSE]

\* A call that hands back what expand() returned when expand() failed.
ReturnedError_of_expand(error, exp_error) ==
    IF exp_error # SUCCESS THEN exp_error ELSE error

\* The error a put/del call hands back when the macro did not jump: the
\* `error` variable of the call, which the macro leaves as it was.
ReturnedError(error, exp_error) == error

\* hist after one pass through the macro with outcome m.
AfterMacro(h, m) ==
    [h EXCEPT !.full = @ \/ m.full,
              !.expands = IF m.full /\ m.exp = SUCCESS THEN Bump(@) ELSE @,
              !.expFailed = @ \/ (m.full /\ m.exp # SUCCESS),
              !.expErr = IF m.full /\ m.exp # SUCCESS THEN m.exp ELSE @,
              !.retriedAfterFail = @ \/ (m.again /\ m.exp # SUCCESS)]

Returned(h, how, err) == [h EXCEPT !.done = TRUE, !.how = how, !.ret = err]

\* Database::put / Database::del(key) / Database::del(key, value) are
\* entered.  The value of del(key, value) is ignored by mdb_del in a keyspace
\* without duplicates.
WriteOps == {"put", "del", "del_value"}

DbWriteCall(op, name, k, v, nov) ==
    /\ pc = "idle"
    /\ op = "put" \/ (v = NoVal /\ ~nov)
    /\ op = "put" => v # NoVal
    /\ pc' = "w_try"
    /\ arg' = [op |-> op, name |-> name, key |-> k, val |-> v, nov |-> nov]
    /\ hist' = [NoHist EXCEPT !.entry = store]
    /\ UNCHANGED <<mapsize, open_txns, writer, store, txns, last, present, growVars, lockVars, byteVars, mapVars, regVars, curVars>>

\* try_again: auto txn = transaction();  The Transaction of the previous
\* round is destroyed by the jump.  A failed construction throws out of the
\* call.
WTry(rs, ext) ==
    /\ pc = "w_try"
    /\ writer = NoWriter
    /\ LET s == txn_setup(rs, mapsize, open_txns, ext)
       IN  /\ mapsize' = s.ms
           /\ IF s.ok
              THEN /\ txns' = [txns EXCEPT ![0] = NewTxn(arg.name, FALSE)]
                   /\ open_txns' = transaction_register(open_txns)
                   /\ writer' = 0
                   /\ pc' = "w_op"
                   /\ hist' = [hist EXCEPT !.attempts = Bump(@)]
              ELSE /\ pc' = "idle"
                   /\ hist' = Returned([hist EXCEPT !.attempts = Bump(@), !.other = TRUE],
                                       "throw", SUCCESS)
                   /\ UNCHANGED <<txns, open_txns, writer>>
    /\ UNCHANGED <<store, arg, last, present, growVars, lockVars, byteVars, mapVars, regVars, curVars>>

\* error = txn->put(...) or txn->del(...); LMDB_CHECK_TXN_EXPAND; if (error)
\* return error.  Leaving the call destroys the Transaction, which aborts.
WOp(fc) ==
    /\ pc = "w_op"
    /\ LET r == IF arg.op = "put"
                THEN mdb_put_flags(txns[0], arg.key, arg.val, arg.nov, mapsize, fc)
                ELSE mdb_del(txns[0], arg.key, mapsize, fc)
           ot == transaction_unregister(open_txns)
           m == LMDB_CHECK_TXN_EXPAND(r.err, mapsize, ot)
       IN  IF r.err = SUCCESS
           THEN /\ txns' = [txns EXCEPT ![0] = r.t]
                /\ pc' = "w_commit"
                /\ UNCHANGED <<mapsize, open_txns, writer, hist>>
           ELSE /\ txns' = [txns EXCEPT ![0] = NoTxn]
                /\ open_txns' = ot
                /\ writer' = NoWriter
                /\ mapsize' = m.ms
                /\ IF m.again
                   THEN /\ pc' = "w_try"
                        /\ hist' = AfterMacro(hist, m)
                   ELSE /\ pc' = "idle"
                        /\ hist' = Returned([AfterMacro(hist, m) EXCEPT
                                               !.other = @ \/ ~m.full,
                                               !.fail = IF m.full THEN @ ELSE r.err],
                                            "ret", ReturnedError(r.err, m.exp))
    /\ UNCHANGED <<store, arg, last, present, growVars, lockVars, byteVars, mapVars, regVars, curVars>>

\* error = txn->commit(); LMDB_CHECK_TXN_EXPAND; return error.
WCommit(fc, io) ==
    /\ pc = "w_commit"
    /\ LET r == mdb_txn_commit(txns[0], store, mapsize, fc, io)
           ot == transaction_unregister(open_txns)
           m == LMDB_CHECK_TXN_EXPAND(r.err, mapsize, ot)
           err == ReturnedError(r.err, m.exp)
       IN  /\ store' = r.store
           /\ txns' = [txns EXCEPT ![0] = NoTxn]
           /\ open_txns' = ot
           /\ writer' = NoWriter
           /\ mapsize' = m.ms
           /\ IF m.again
              THEN /\ pc' = "w_try"
                   /\ hist' = AfterMacro(hist, m)
                   /\ UNCHANGED present
              ELSE /\ pc' = "idle"
                   /\ hist' = Returned([AfterMacro(hist, m) EXCEPT
                                          !.other = @ \/ (r.err # SUCCESS /\ ~m.full),
                                          !.fail = IF r.err # SUCCESS /\ ~m.full
                                                   THEN r.err ELSE @],
                                       "ret", err)
                   /\ present' = IF err # SUCCESS THEN present
                                 ELSE IF arg.op = "put"
                                 THEN present \cup {<<arg.name, arg.key>>}
                                 ELSE present \ {<<arg.name, arg.key>>}
    /\ UNCHANGED <<arg, last, growVars, lockVars, byteVars, mapVars, regVars, curVars>>

\* Database::drop(false) is entered.
DbDropCall(name) ==
    /\ pc = "idle"
    /\ pc' = "d_try"
    /\ arg' = [op |-> "drop", name |-> name, key |-> "k1", val |-> NoVal, nov |-> FALSE]
    /\ hist' = [NoHist EXCEPT !.entry = store]
    /\ UNCHANGED <<mapsize, open_txns, writer, store, txns, last, present, growVars, lockVars, byteVars, mapVars, regVars, curVars>>

\* try_again: std::unique_ptr<Transaction> txn(new Transaction(environment));
DTry(rs, ext) ==
    /\ pc = "d_try"
    /\ writer = NoWriter
    /\ LET s == txn_setup(rs, mapsize, open_txns, ext)
       IN  /\ mapsize' = s.ms
           /\ IF s.ok
              THEN /\ txns' = [txns EXCEPT ![0] = NewTxn(arg.name, FALSE)]
                   /\ open_txns' = transaction_register(open_txns)
                   /\ writer' = 0
                   /\ pc' = "d_op"
                   /\ hist' = [hist EXCEPT !.attempts = Bump(@)]
              ELSE /\ pc' = "idle"
                   /\ hist' = Returned([hist EXCEPT !.attempts = Bump(@), !.other = TRUE],
                                       "throw", SUCCESS)
                   /\ UNCHANGED <<txns, open_txns, writer>>
    /\ UNCHANGED <<store, arg, last, present, growVars, lockVars, byteVars, mapVars, regVars, curVars>>

\* Whether Database::drop jumps back to try_again: on MDB_MAP_FULL, whatever
\* environment->expand() returned.
DropAgain(result, exp_error) == result = LMDB_MAP_FULL

\* result = mdb_drop(...); on MDB_MAP_FULL abort, expand, goto try_again;
\* else return txn->commit().
DOp(fc, io, refuse) ==
    /\ pc = "d_op"
    /\ LET r == mdb_drop(txns[0], arg.name, mapsize, fc, refuse)
           ot == transaction_unregister(open_txns)
           e == expand(mapsize, ot)
           m == [full |-> TRUE, exp |-> e.err, ms |-> e.ms,
                 again |-> DropAgain(r.err, e.err)]
           c == mdb_txn_commit(r.t, store, mapsize, fc, io)
       IN  /\ txns' = [txns EXCEPT ![0] = NoTxn]
           /\ open_txns' = ot
           /\ writer' = NoWriter
           /\ IF r.err = LMDB_MAP_FULL
              THEN /\ mapsize' = e.ms
                   /\ UNCHANGED <<store, present>>
                   /\ IF m.again
                      THEN /\ pc' = "d_try"
                           /\ hist' = AfterMacro(hist, m)
                      ELSE /\ pc' = "idle"
                           /\ hist' = Returned(AfterMacro(hist, m), "ret", r.err)
              ELSE /\ store' = c.store
                   /\ pc' = "idle"
                   /\ hist' = Returned([hist EXCEPT
                                          !.full = @ \/ r.err \in FullCodes,
                                          !.other = r.err # SUCCESS \/ c.err # SUCCESS,
                                          !.fail = r.err,
                                          !.committed = TRUE],
                                       "ret", c.err)
                   /\ present' = IF c.err = SUCCESS /\ r.err = SUCCESS
                                 THEN {nk \in present : nk[1] # arg.name}
                                 ELSE present
                   /\ UNCHANGED mapsize
    /\ UNCHANGED <<arg, last, growVars, lockVars, byteVars, mapVars, regVars, curVars>>

\* Database::get / Database::exists: transaction(true)->get(...), the
\* read-only Transaction ending with the call.
DbGet(op, name, k, rs, ext) ==
    /\ pc = "idle"
    /\ LET s == txn_setup(rs, mapsize, open_txns, ext)
           r == mdb_get(NewTxn(name, TRUE), k)
           setup == [NoLast EXCEPT !.op = op, !.eng = TRUE,
                                   !.rs = SubSeq(rs, 1, s.begins), !.detects = s.detects]
       IN  /\ mapsize' = s.ms
           /\ last' = IF ~s.ok
                      THEN [setup EXCEPT !.how = "throw"]
                      ELSE IF op = "dbget"
                      THEN [setup EXCEPT !.err = r.err, !.val = r.val]
                      ELSE [setup EXCEPT
                                !.val = IF r.err = SUCCESS THEN "true" ELSE "false"]
    /\ UNCHANGED <<open_txns, writer, store, txns, pc, arg, hist, present, growVars, lockVars, byteVars, mapVars, regVars, curVars>>

\* Database::get and Database::exists on databases NS and keys KS.
DbReadStep(NS, KS) ==
    \E op \in {"dbget", "dbexists"}, n \in NS, k \in KS, rs \in BeginSeqs :
        \E ext \in ExtSizes(mapsize) : DbGet(op, n, k, rs, ext)

\* Database::put, del and drop on databases NS and keys KS, step by step.
DbWriteStep(NS, KS) ==
    \/ \E op \in WriteOps, n \in NS, k \in KS, v \in Vals \cup {NoVal}, nov \in BOOLEAN :
           DbWriteCall(op, n, k, v, nov)
    \/ \E rs \in BeginSeqs : \E ext \in ExtSizes(mapsize) : WTry(rs, ext)
    \/ \E fc \in FullCodes : WOp(fc)
    \/ \E fc \in FullCodes, io \in BOOLEAN : WCommit(fc, io)
    \/ \E n \in NS : DbDropCall(n)
    \/ \E rs \in BeginSeqs : \E ext \in ExtSizes(mapsize) : DTry(rs, ext)
    \/ \E fc \in FullCodes, io \in BOOLEAN, refuse \in BOOLEAN : DOp(fc, io, refuse)

(***************************************************************************)
(* Map growth called by the user.                                          *)
(***************************************************************************)
\* Environment::expand().
ExpandCall ==
    /\ pc = "idle"
    /\ LET e == expand(mapsize, open_txns)
       IN  /\ mapsize' = e.ms
           /\ last' = [NoLast EXCEPT !.op = "expand", !.err = e.err, !.eng = e.eng]
    /\ UNCHANGED <<open_txns, writer, store, txns, pc, arg, hist, present, growVars, lockVars, byteVars, mapVars, regVars, curVars>>

\* Environment::expand(pages) called by the user.
PagesArgs == {0, memory_to_pages(GrowthMB * LMDB_SPACE_MULTIPLIER)}

ExpandPagesCall(pages) ==
    /\ pc = "idle"
    /\ LET e == expand_pages(pages, mapsize, open_txns)
       IN  /\ mapsize' = e.ms
           /\ last' = [NoLast EXCEPT !.op = "expand_pages", !.err = e.err, !.eng = e.eng]
    /\ UNCHANGED <<open_txns, writer, store, txns, pc, arg, hist, present, growVars, lockVars, byteVars, mapVars, regVars, curVars>>

\* Environment::detect_map_size().
DetectCall(ext) ==
    /\ pc = "idle"
    /\ LET d == detect_map_size(mapsize, open_txns, ext)
       IN  /\ mapsize' = d.ms
           /\ last' = [NoLast EXCEPT !.op = "detect", !.err = d.err, !.eng = d.eng]
    /\ UNCHANGED <<open_txns, writer, store, txns, pc, arg, hist, present, growVars, lockVars, byteVars, mapVars, regVars, curVars>>

(***************************************************************************)
(* SpecExpand: one thread growing the map with expand() and expand(pages), *)
(* among them page counts whose product with the page size does not fit a  *)
(* size_t, and opening and ending Transactions.                            *)
(***************************************************************************)
WidePages == PagesArgs \cup {1, (SizeModulus \div PageSize) - 1}

NextExpand ==
    \/ ExpandCall
    \/ \E pages \in WidePages : ExpandPagesCall(pages)
    \/ \E id \in UserTxn, ro \in BOOLEAN : TxnOpen(id, "a", ro, <<SUCCESS>>, mapsize)
    \/ \E id \in UserTxn : TxnAbort(id)

SpecExpand == Init /\ [][NextExpand]_vars

EnvStep ==
    \/ ExpandCall
    \/ \E pages \in PagesArgs : ExpandPagesCall(pages)
    \/ \E ext \in ExtSizes(mapsize) : DetectCall(ext)

(***************************************************************************)
(* Spec: one thread holding Transactions on database "a", key "k1".        *)
(***************************************************************************)
Next ==
    \/ TxnStep({"a"}, {"k1"})
    \/ DbReadStep({"a"}, {"k1"})
    \/ EnvStep

Spec == Init /\ [][Next]_vars

(***************************************************************************)
(* SpecDb: one thread using the Database convenience calls on database     *)
(* "a": writes to all keys, reads of key "k1" whose Transaction begins at  *)
(* once.                                                                   *)
(***************************************************************************)
NextDb ==
    \/ DbWriteStep({"a"}, Keys)
    \/ \E op \in {"dbget", "dbexists"} : DbGet(op, "a", "k1", <<SUCCESS>>, mapsize)
    \/ EnvStep

SpecDb == Init /\ [][NextDb]_vars

(***************************************************************************)
(* Cursor.  A Cursor copies the shared_ptr<MDB_txn *> of its Transaction   *)
(* and keeps the MDB_cursor * that mdb_cursor_open returned; cursor is set *)
(* to nullptr by the destructor only.                                      *)
(***************************************************************************)
\* A call of the engine with a cursor whose transaction has ended: the
\* engine reads freed memory.  The build either faults or returns whatever
\* the engine made of it.
StaleUse(c, op) ==
    \E how \in {"crash", "ret"} :
        /\ last' = [NoLast EXCEPT !.op = op, !.id = curs[c].txn, !.how = how,
                                  !.stale = TRUE, !.eng = TRUE,
                                  !.err = IF how = "ret" THEN OtherFail ELSE SUCCESS]
        /\ pc' = IF how = "crash" THEN "crashed" ELSE pc
        /\ UNCHANGED <<mapsize, open_txns, writer, store, txns, arg, hist, present,
                       growVars, lockVars, byteVars, mapVars, regVars, curVars>>

\* A Cursor operation refused by the layer itself.
CurRefuse(c, op) ==
    /\ last' = [NoLast EXCEPT !.op = op, !.id = curs[c].txn, !.err = LMDB_ERROR,
                              !.stale = curs[c].stale]
    /\ UNCHANGED <<mapsize, open_txns, writer, store, txns, pc, arg, hist, present,
                   growVars, lockVars, byteVars, mapVars, regVars, curVars>>

CurHeld(c) == pc = "idle" /\ curs[c].st = "open"

\* Transaction::cursor with the Cursor kept by the caller.
CurOpen(c, id) ==
    /\ Held(id)
    /\ curs[c].st = "none"
    /\ IF ~Live(id) THEN NullDeref(id, "cursor")
       ELSE /\ last' = [NoLast EXCEPT !.op = "cursor", !.id = id, !.reset = txns[id].reset, !.eng = TRUE,
                                      !.how = IF Blocked(txns[id]) THEN "throw" ELSE "ret"]
            /\ curs' = IF Blocked(txns[id]) THEN curs
                       ELSE [curs EXCEPT ![c] = [NoCur EXCEPT !.st = "open", !.txn = id,
                                                              !.ro = txns[id].ro,
                                                              !.late = txns[id].renewed]]
            /\ UNCHANGED <<mapsize, open_txns, writer, store, txns, pc, arg, hist,
                           present, growVars, lockVars, byteVars, mapVars, regVars>>

\* Cursor::get(key, MDB_SET).
CurGet(c, k) ==
    /\ CurHeld(c)
    /\ IF curs[c].stale THEN StaleUse(c, "cget")
       ELSE LET r == mdb_get(txns[curs[c].txn], k)
            IN  /\ last' = [NoLast EXCEPT !.op = "cget", !.id = curs[c].txn,
                                          !.err = r.err, !.eng = TRUE, !.val = r.val]
                /\ curs' = [curs EXCEPT ![c].pos = IF r.err = SUCCESS THEN k ELSE NoVal]
                /\ UNCHANGED <<mapsize, open_txns, writer, store, txns, pc, arg, hist,
                               present, growVars, lockVars, byteVars, mapVars, regVars>>

\* Cursor::get_all(key): get(key, MDB_SET), then get(MDB_NEXT_DUP) until a
\* call fails; LMDB_EMPTY when nothing was collected.
CurGetAll(c, k) ==
    /\ CurHeld(c)
    /\ IF curs[c].stale THEN StaleUse(c, "cget_all")
       ELSE LET r == mdb_get(txns[curs[c].txn], k)
            IN  /\ last' = [NoLast EXCEPT !.op = "cget_all", !.id = curs[c].txn,
                                          !.err = IF r.err = SUCCESS THEN SUCCESS
                                                  ELSE LMDB_EMPTY,
                                          !.eng = TRUE, !.val = r.val]
                /\ curs' = [curs EXCEPT ![c].pos = IF r.err = SUCCESS THEN k ELSE NoVal]
                /\ UNCHANGED <<mapsize, open_txns, writer, store, txns, pc, arg, hist,
                               present, growVars, lockVars, byteVars, mapVars, regVars>>

\* Cursor::put.
CurPut(c, k, v, fc) ==
    /\ CurHeld(c)
    /\ IF curs[c].ro THEN CurRefuse(c, "cput")
       ELSE IF curs[c].stale THEN StaleUse(c, "cput")
       ELSE LET r == mdb_put(txns[curs[c].txn], k, v, mapsize, fc)
            IN  /\ txns' = [txns EXCEPT ![curs[c].txn] = r.t]
                /\ last' = [NoLast EXCEPT !.op = "cput", !.id = curs[c].txn,
                                          !.err = r.err, !.eng = TRUE]
                /\ curs' = [curs EXCEPT ![c].pos = IF r.err = SUCCESS THEN k ELSE @]
                /\ UNCHANGED <<mapsize, open_txns, writer, store, pc, arg, hist,
                               present, growVars, lockVars, byteVars, mapVars, regVars>>

\* Cursor::del: mdb_cursor_del removes the pair the cursor stands on and
\* refuses a cursor that stands on none.
CurDel(c, fc) ==
    /\ CurHeld(c)
    /\ IF curs[c].ro THEN CurRefuse(c, "cdel")
       ELSE IF curs[c].stale THEN StaleUse(c, "cdel")
       ELSE IF curs[c].pos = NoVal
       THEN /\ last' = [NoLast EXCEPT !.op = "cdel", !.id = curs[c].txn,
                                      !.err = OtherFail, !.eng = TRUE]
            /\ UNCHANGED <<mapsize, open_txns, writer, store, txns, pc, arg, hist,
                           present, growVars, lockVars, byteVars, mapVars, regVars, curVars>>
       ELSE LET r == mdb_del(txns[curs[c].txn], curs[c].pos, mapsize, fc)
            IN  /\ txns' = [txns EXCEPT ![curs[c].txn] = r.t]
                /\ last' = [NoLast EXCEPT !.op = "cdel", !.id = curs[c].txn,
                                          !.err = r.err, !.eng = TRUE]
                /\ curs' = [curs EXCEPT ![c].pos = NoVal]
                /\ UNCHANGED <<mapsize, open_txns, writer, store, pc, arg, hist,
                               present, growVars, lockVars, byteVars, mapVars, regVars>>

\* Cursor::count: mdb_cursor_count refuses a cursor that stands on no pair.
CurCount(c) ==
    /\ CurHeld(c)
    /\ IF curs[c].stale THEN StaleUse(c, "ccount")
       ELSE /\ last' = [NoLast EXCEPT !.op = "ccount", !.id = curs[c].txn, !.eng = TRUE,
                                      !.err = IF curs[c].pos = NoVal
                                                 \/ Blocked(txns[curs[c].txn])
                                              THEN OtherFail ELSE SUCCESS]
            /\ UNCHANGED <<mapsize, open_txns, writer, store, txns, pc, arg, hist,
                           present, growVars, lockVars, byteVars, mapVars, regVars, curVars>>

\* Cursor::renew: refused for a read-only Cursor; mdb_cursor_renew refuses
\* the cursor of a read-write transaction.
CurRenew(c) ==
    /\ CurHeld(c)
    /\ IF curs[c].ro THEN CurRefuse(c, "crenew")
       ELSE IF curs[c].stale THEN StaleUse(c, "crenew")
       ELSE /\ last' = [NoLast EXCEPT !.op = "crenew", !.id = curs[c].txn,
                                      !.err = OtherFail, !.eng = TRUE]
            /\ UNCHANGED <<mapsize, open_txns, writer, store, txns, pc, arg, hist,
                           present, growVars, lockVars, byteVars, mapVars, regVars, curVars>>

\* Cursor::~Cursor: mdb_cursor_close for a read-only Cursor, nothing for a
\* read-write one.
CurDestroy(c) ==
    /\ CurHeld(c)
    /\ curs' = [curs EXCEPT ![c] = NoCur]
    /\ last' = [NoLast EXCEPT !.op = "cdestroy", !.id = curs[c].txn,
                              !.eng = curs[c].ro]
    /\ UNCHANGED <<mapsize, open_txns, writer, store, txns, pc, arg, hist, present,
                   growVars, lockVars, byteVars, mapVars, regVars>>

CurStep(KS) ==
    \/ \E c \in CurIds, id \in UserTxn : CurOpen(c, id)
    \/ \E c \in CurIds, k \in KS : CurGet(c, k)
    \/ \E c \in CurIds, k \in KS : CurGetAll(c, k)
    \/ \E c \in CurIds, k \in KS, v \in Vals, fc \in FullCodes : CurPut(c, k, v, fc)
    \/ \E c \in CurIds, fc \in FullCodes : CurDel(c, fc)
    \/ \E c \in CurIds : CurCount(c)
    \/ \E c \in CurIds : CurRenew(c)
    \/ \E c \in CurIds : CurDestroy(c)

(***************************************************************************)
(* SpecCur: one thread holding Transactions on database "a" and Cursors    *)
(* opened on them, key "k1".                                               *)
(***************************************************************************)
TxnEnd ==
    \/ \E id \in UserTxn, fc \in FullCodes, io \in BOOLEAN : TxnCommit(id, fc, io)
    \/ \E id \in UserTxn : TxnAbort(id)
    \/ \E id \in UserTxn : TxnDestroy(id)

TxnLife(NS) ==
    \/ \E id \in UserTxn, n \in NS, ro \in BOOLEAN, rs \in BeginSeqs :
           \E ext \in ExtSizes(mapsize) : TxnOpen(id, n, ro, rs, ext)
    \/ TxnEnd

NextCur ==
    \/ TxnLife({"a"})
    \/ CurStep({"k1"})

SpecCur == Init /\ [][NextCur]_vars

(***************************************************************************)
(* SpecSetup: one thread constructing Transactions, its own and the        *)
(* read-only one of Database::get, while another process resizes the map.  *)
(***************************************************************************)
NextSetup ==
    \/ \E id \in UserTxn, ro \in BOOLEAN, rs \in BeginSeqs :
           \E ext \in ExtSizes(mapsize) : TxnOpen(id, "a", ro, rs, ext)
    \/ \E id \in UserTxn : TxnAbort(id)
    \/ \E rs \in BeginSeqs : \E ext \in ExtSizes(mapsize) : DbGet("dbget", "a", "k1", rs, ext)

SpecSetup == Init /\ [][NextSetup]_vars

(***************************************************************************)
(* SpecWrite: one thread writing through its Transactions and through the  *)
(* Cursors opened on them, database "a", key "k1"; no other process        *)
(* resizes the map and the disk takes every commit.                        *)
(***************************************************************************)
NextWrite ==
    \/ \E id \in UserTxn, ro \in BOOLEAN : TxnOpen(id, "a", ro, <<SUCCESS>>, mapsize)
    \/ \E id \in UserTxn : TxnAbort(id)
    \/ \E id \in UserTxn, fc \in FullCodes : TxnCommit(id, fc, FALSE)
    \/ \E id \in UserTxn, fc \in FullCodes : TxnPut(id, "k1", "v1", fc)
    \/ \E id \in UserTxn, fc \in FullCodes : TxnDel(id, "k1", fc)
    \/ \E c \in CurIds, id \in UserTxn : CurOpen(c, id)
    \/ \E c \in CurIds, fc \in FullCodes : CurPut(c, "k1", "v1", fc)
    \/ \E c \in CurIds, fc \in FullCodes : CurDel(c, fc)
    \/ \E c \in CurIds : CurDestroy(c)

SpecWrite == Init /\ [][NextWrite]_vars

(***************************************************************************)
(* SpecCurRenew: one thread that resets and renews its Transactions and    *)
(* renews the Cursors opened on them.                                      *)
(***************************************************************************)
NextCurRenew ==
    \/ TxnLife({"a"})
    \/ \E id \in UserTxn : TxnReset(id)
    \/ \E id \in UserTxn : TxnRenew(id)
    \/ \E c \in CurIds, id \in UserTxn : CurOpen(c, id)
    \/ \E c \in CurIds : CurRenew(c)
    \/ \E c \in CurIds : CurDestroy(c)

SpecCurRenew == Init /\ [][NextCurRenew]_vars


(***************************************************************************)
(* SpecMulti: one thread holding a Transaction that it points at database  *)
(* "a" or "b" with use(), key "k1", the reads of Database::get, and        *)
(* Environment::expand.                                                    *)
(***************************************************************************)
\* No other process resizes the map here: mdb_txn_begin succeeds at once.
NextMulti ==
    \/ \E id \in UserTxn, n \in Names, ro \in BOOLEAN :
           TxnOpen(id, n, ro, <<SUCCESS>>, mapsize)
    \/ TxnEnd
    \/ \E id \in UserTxn, n \in Names : TxnUse(id, n)
    \/ \E id \in UserTxn, v \in Vals, fc \in FullCodes : TxnPut(id, "k1", v, fc)
    \/ \E n \in Names : DbGet("dbget", n, "k1", <<SUCCESS>>, mapsize)
    \/ ExpandCall

SpecMulti == Init /\ [][NextMulti]_vars

(***************************************************************************)
(* SpecGrow: two threads.  Each either grows the map (expand,              *)
(* detect_map_size) or opens and ends a read-write Transaction.  A step is *)
(* what a thread does between two acquisitions of a lock.                  *)
(***************************************************************************)
Slot(t) == IF t = "t1" THEN 0 ELSE 1

coreVars == <<store, txns, pc, arg, hist, last, present, lockVars, byteVars, mapVars,
              regVars, curVars>>

\* Environment::expand(pages) / detect_map_size called by the user:
\* std::scoped_lock lock(mutex).
GLock(t, call) ==
    /\ g[t].pc = "idle"
    /\ envMutex = "free"
    /\ envMutex' = t
    /\ g' = [g EXCEPT ![t] = [NoG EXCEPT !.pc = "g_locked", !.call = call]]
    /\ UNCHANGED <<mapsize, open_txns, writer, grownUnderTxn, coreVars>>

\* open_transactions(): the counter is read under txn_mutex.
GRead(t) ==
    /\ g[t].pc = "g_locked"
    /\ g' = [g EXCEPT ![t].pc = "g_set", ![t].seen = open_txns]
    /\ UNCHANGED <<mapsize, open_txns, writer, envMutex, grownUnderTxn, coreVars>>

\* The rest of expand(pages) / detect_map_size: the test of the counter value
\* read before, mdb_env_set_mapsize, and the release of the mutex.  The
\* engine documents that it does not check for active transactions; with
\* one active it either resizes or refuses.
GSet(t, ext, refuse) ==
    /\ g[t].pc = "g_set"
    /\ LET r == IF g[t].call = "expand" THEN expand(mapsize, g[t].seen)
                ELSE detect_map_size(mapsize, g[t].seen, ext)
           refused == r.eng /\ writer # NoWriter /\ refuse
           err == IF refused THEN OtherFail ELSE r.err
       IN  /\ mapsize' = IF refused THEN mapsize ELSE r.ms
           /\ grownUnderTxn' = (grownUnderTxn \/ (mapsize' # mapsize /\ writer # NoWriter))
           /\ g' = [g EXCEPT ![t].ret = err,
                             ![t].pc = IF g[t].caller = "user" \/ err # SUCCESS
                                       THEN "idle" ELSE "s_begin"]
    /\ envMutex' = "free"
    /\ UNCHANGED <<open_txns, writer, coreVars>>

\* A read-write Transaction is constructed: txn_setup is entered.
GSetup(t) ==
    /\ g[t].pc = "idle"
    /\ g' = [g EXCEPT ![t] = [NoG EXCEPT !.pc = "s_begin"]]
    /\ UNCHANGED <<mapsize, open_txns, writer, envMutex, grownUnderTxn, coreVars>>

\* One round of the loop of txn_setup: mdb_txn_begin answers r.  A
\* successful begin holds the engine's writer lock.
GBegin(t, r) ==
    /\ g[t].pc = "s_begin"
    /\ r = SUCCESS => writer = NoWriter
    /\ writer' = IF r = SUCCESS THEN Slot(t) ELSE writer
    /\ g' = [g EXCEPT ![t].pc = IF r = SUCCESS THEN "s_register"
                                ELSE IF r = LMDB_MAP_RESIZED /\ g[t].i < 2
                                THEN "s_detect" ELSE "idle",
                      ![t].i = @ + 1,
                      ![t].ret = r]
    /\ UNCHANGED <<mapsize, open_txns, envMutex, grownUnderTxn, coreVars>>

\* environment->detect_map_size() called by txn_setup.
GDetect(t) ==
    /\ g[t].pc = "s_detect"
    /\ envMutex = "free"
    /\ envMutex' = t
    /\ g' = [g EXCEPT ![t].pc = "g_locked", ![t].call = "detect", ![t].caller = "setup"]
    /\ UNCHANGED <<mapsize, open_txns, writer, grownUnderTxn, coreVars>>

\* environment->transaction_register() at the end of txn_setup.
GRegister(t) ==
    /\ g[t].pc = "s_register"
    /\ open_txns' = transaction_register(open_txns)
    /\ g' = [g EXCEPT ![t].pc = "t_live"]
    /\ UNCHANGED <<mapsize, writer, envMutex, grownUnderTxn, coreVars>>

\* Transaction::commit / abort: the engine ends the transaction.
GEnd(t) ==
    /\ g[t].pc = "t_live"
    /\ writer' = NoWriter
    /\ g' = [g EXCEPT ![t].pc = "t_ended"]
    /\ UNCHANGED <<mapsize, open_txns, envMutex, grownUnderTxn, coreVars>>

\* environment->transaction_unregister() in commit / abort.
GUnregister(t) ==
    /\ g[t].pc = "t_ended"
    /\ open_txns' = transaction_unregister(open_txns)
    /\ g' = [g EXCEPT ![t].pc = "idle"]
    /\ UNCHANGED <<mapsize, writer, envMutex, grownUnderTxn, coreVars>>

NextGrow ==
    \E t \in Threads :
        \/ \E call \in {"expand", "detect"} : GLock(t, call)
        \/ GRead(t)
        \/ \E ext \in ExtSizes(mapsize), refuse \in BOOLEAN : GSet(t, ext, refuse)
        \/ GSetup(t)
        \/ \E r \in {SUCCESS, LMDB_MAP_RESIZED, OtherFail} : GBegin(t, r)
        \/ GDetect(t)
        \/ GRegister(t)
        \/ GEnd(t)
        \/ GUnregister(t)

SpecGrow == Init /\ [][NextGrow]_vars

(***************************************************************************)
(* SpecLock: two threads using one Database: transaction(readonly), get,   *)
(* exists, count and drop, and commit of the read-write Transaction a      *)
(* thread was given.  A step is what a thread does between two points      *)
(* where it may have to wait: for Database::mutex, or for the engine's     *)
(* writer lock.                                                            *)
(***************************************************************************)
lockRest == <<store, txns, pc, arg, hist, last, present, byteVars, mapVars, regVars,
              curVars, envMutex, grownUnderTxn>>

ReadCalls == {"get", "exists", "count"}

\* The user calls Database::transaction(ro), get, exists, count or drop.  A
\* thread that holds a read-write Transaction makes read-only calls only.
L_call(t, call, ro) ==
    /\ g[t].pc = "idle"
    /\ call \in ReadCalls => ro
    /\ call = "drop" => ~ro
    /\ g[t].rw => ro
    /\ g' = [g EXCEPT ![t].pc = "l_lock", ![t].call = call, ![t].ro = ro]
    /\ UNCHANGED <<mapsize, open_txns, writer, dbMutex, lockRest>>

\* std::scoped_lock lock(mutex), the first statement of
\* Database::transaction (which get, exists and count call first) and of
\* Database::drop.
L_lock(t) ==
    /\ g[t].pc = "l_lock"
    /\ dbMutex = "free"
    /\ dbMutex' = t
    /\ g' = [g EXCEPT ![t].pc = "l_begin"]
    /\ UNCHANGED <<mapsize, open_txns, writer, lockRest>>

\* new Transaction(...), with the mutex held: mdb_txn_begin waits for the
\* engine's writer lock unless the Transaction is read-only, and a
\* read-write Transaction is registered.
L_txn_setup(t) ==
    /\ g[t].pc = "l_begin"
    /\ g[t].ro \/ writer = NoWriter
    /\ writer' = IF g[t].ro THEN writer ELSE Slot(t)
    /\ open_txns' = IF g[t].ro THEN open_txns ELSE transaction_register(open_txns)
    /\ g' = [g EXCEPT ![t].pc = IF g[t].call = "drop" THEN "l_drop" ELSE "l_return"]
    /\ UNCHANGED <<mapsize, dbMutex, lockRest>>

\* Database::transaction returns and releases the mutex.  The user keeps a
\* read-write Transaction and lets go of a read-only one at once; get, exists
\* and count go on with their read.
L_return(t) ==
    /\ g[t].pc = "l_return"
    /\ dbMutex' = "free"
    /\ g' = [g EXCEPT ![t].pc = IF g[t].call \in ReadCalls THEN "l_read" ELSE "idle",
                      ![t].rw = (@ \/ ~g[t].ro)]
    /\ UNCHANGED <<mapsize, open_txns, writer, lockRest>>

\* get, exists, count: the read on the temporary read-only Transaction, which
\* is destroyed at the return.
L_read(t) ==
    /\ g[t].pc = "l_read"
    /\ g' = [g EXCEPT ![t].pc = "idle"]
    /\ UNCHANGED <<mapsize, open_txns, writer, dbMutex, lockRest>>

\* Database::drop after its Transaction began: mdb_drop reports a full map
\* (abort, expand, goto try_again with the mutex still held) or the
\* Transaction is committed and drop returns.
L_drop(t, full) ==
    /\ g[t].pc = "l_drop"
    /\ writer' = NoWriter
    /\ open_txns' = transaction_unregister(open_txns)
    /\ mapsize' = IF full THEN expand(mapsize, open_txns').ms ELSE mapsize
    /\ dbMutex' = IF full THEN dbMutex ELSE "free"
    /\ g' = [g EXCEPT ![t].pc = IF full THEN "l_begin" ELSE "idle"]
    /\ UNCHANGED lockRest

\* Transaction::commit of the read-write Transaction the thread holds.
L_commit(t) ==
    /\ g[t].pc = "idle"
    /\ g[t].rw
    /\ writer' = NoWriter
    /\ open_txns' = transaction_unregister(open_txns)
    /\ g' = [g EXCEPT ![t].rw = FALSE]
    /\ UNCHANGED <<mapsize, dbMutex, lockRest>>

NextLock ==
    \E t \in Threads :
        \/ \E call \in ReadCalls \cup {"transaction", "drop"}, ro \in BOOLEAN :
              L_call(t, call, ro)
        \/ L_lock(t)
        \/ L_txn_setup(t)
        \/ L_return(t)
        \/ L_read(t)
        \/ \E full \in BOOLEAN : L_drop(t, full)
        \/ L_commit(t)

SpecLock == Init /\ [][NextLock]_vars

(***************************************************************************)
(* SpecPut: two threads calling Database::put and Database::del on         *)
(* Databases of one Environment.  The construction of the Transaction is   *)
(* the one of SpecGrow (GBegin, GRegister).                                *)
(***************************************************************************)
\* Database::put / Database::del is called: try_again, auto txn =
\* transaction().
P_call(t, call) ==
    /\ g[t].pc = "idle"
    /\ g' = [g EXCEPT ![t] = [NoG EXCEPT !.pc = "s_begin", !.call = call]]
    /\ UNCHANGED <<mapsize, open_txns, writer, envMutex, grownUnderTxn, coreVars>>

\* txn->put / txn->del and txn->commit(): the engine answers fc to one of
\* them.  On a full condition LMDB_CHECK_TXN_EXPAND aborts the Transaction;
\* on another failure of put / del the Transaction is destroyed at the
\* return, which aborts it; else it is committed.
P_op(t, fc) ==
    /\ g[t].pc = "t_live"
    /\ g[t].call \in {"put", "del"}
    /\ writer' = NoWriter
    /\ open_txns' = transaction_unregister(open_txns)
    /\ g' = [g EXCEPT ![t].ret = fc,
                      ![t].pc = IF fc \in FullCodes THEN "p_expand" ELSE "idle"]
    /\ UNCHANGED <<mapsize, envMutex, grownUnderTxn, coreVars>>

\* LMDB_CHECK_TXN_EXPAND after the abort: env->expand(); goto try_again when
\* it succeeded, else the full condition is returned to the caller.  seen is
\* the counter value expand() found.
P_expand(t) ==
    /\ g[t].pc = "p_expand"
    /\ envMutex = "free"
    /\ LET e == expand(mapsize, open_txns)
       IN  /\ mapsize' = e.ms
           /\ grownUnderTxn' = (grownUnderTxn \/ (mapsize' # mapsize /\ writer # NoWriter))
           /\ g' = [g EXCEPT ![t].seen = open_txns,
                             ![t].i = 0,
                             ![t].pc = IF e.err = SUCCESS THEN "s_begin" ELSE "idle"]
    /\ UNCHANGED <<open_txns, writer, envMutex, coreVars>>

NextPut ==
    \E t \in Threads :
        \/ \E call \in {"put", "del"} : P_call(t, call)
        \/ \E r \in {SUCCESS, OtherFail} : GBegin(t, r)
        \/ GRegister(t)
        \/ \E fc \in {SUCCESS, LMDB_KEYEXIST} \cup FullCodes : P_op(t, fc)
        \/ P_expand(t)

SpecPut == Init /\ [][NextPut]_vars

(***************************************************************************)
(* SpecMutex: two threads call expand(pages), detect_map_size, copy, flush *)
(* and set_flags on one Environment, and open and end read-write           *)
(* Transactions.  A step is one engine call or one lock operation of the   *)
(* member function.                                                        *)
(***************************************************************************)
MutexCalls == {"expand", "detect", "copy", "flush", "set_flags"}

\* The thread is between the std::scoped_lock lock(mutex) of one of the five
\* member functions and its return.
Inside(t) == g[t].pc \in {"m_locked", "m_info", "m_set", "m_engine"}

\* An entry into the five member functions that does not wait for the mutex.
M_lock_unguarded(t, call, pages) ==
    /\ g[t].pc = "idle"
    /\ envMutex' = t
    /\ g' = [g EXCEPT ![t] = [NoG EXCEPT !.pc = "m_locked", !.call = call,
                                         !.pages = pages]]
    /\ UNCHANGED <<mapsize, open_txns, writer, grownUnderTxn, coreVars>>

\* std::scoped_lock lock(mutex), the first statement of expand(pages),
\* detect_map_size, copy, flush and set_flags.
M_lock(t, call, pages) ==
    /\ g[t].pc = "idle"
    /\ envMutex = "free"
    /\ envMutex' = t
    /\ g' = [g EXCEPT ![t] = [NoG EXCEPT !.pc = "m_locked", !.call = call,
                                         !.pages = pages]]
    /\ UNCHANGED <<mapsize, open_txns, writer, grownUnderTxn, coreVars>>

\* expand(pages) and detect_map_size: if (open_transactions() != 0) return
\* LMDB_ERROR, releasing the mutex.  copy, flush and set_flags go on to their
\* engine call.
M_open_transactions(t) ==
    /\ g[t].pc = "m_locked"
    /\ LET refused == g[t].call \in {"expand", "detect"} /\ open_txns # 0
       IN  /\ g' = [g EXCEPT ![t].seen = open_txns,
                             ![t].ret = IF refused THEN LMDB_ERROR ELSE SUCCESS,
                             ![t].pc = IF refused THEN "idle"
                                       ELSE IF g[t].call = "expand" THEN "m_info"
                                       ELSE IF g[t].call = "detect" THEN "m_set"
                                       ELSE "m_engine"]
           /\ envMutex' = IF refused THEN "free" ELSE envMutex
    /\ UNCHANGED <<mapsize, open_txns, writer, grownUnderTxn, coreVars>>

\* expand(pages): info() reads me_mapsize (stats() reads the page size, which
\* never changes).
M_info(t) ==
    /\ g[t].pc = "m_info"
    /\ g' = [g EXCEPT ![t].size = mapsize, ![t].pc = "m_set"]
    /\ UNCHANGED <<mapsize, open_txns, writer, envMutex, grownUnderTxn, coreVars>>

\* expand(pages): mdb_env_set_mapsize(env, ms_psize * pages + me_mapsize);
\* detect_map_size: mdb_env_set_mapsize(env, 0) adopts the size ext.  The
\* function returns and the mutex is released.
M_set_mapsize(t, ext) ==
    /\ g[t].pc = "m_set"
    /\ LET r == IF g[t].call = "expand"
                THEN mdb_env_set_mapsize((PageSize * g[t].pages) + g[t].size, mapsize)
                ELSE [err |-> SUCCESS, ms |-> ext]
       IN  /\ mapsize' = r.ms
           /\ grownUnderTxn' = (grownUnderTxn \/ (mapsize' # mapsize /\ writer # NoWriter))
           /\ g' = [g EXCEPT ![t].ret = r.err, ![t].pc = "idle"]
    /\ envMutex' = "free"
    /\ UNCHANGED <<open_txns, writer, coreVars>>

\* copy: mdb_env_copy2; flush: mdb_env_sync; set_flags: mdb_env_set_flags.
\* The engine answers r; the function returns and the mutex is released.
M_engine(t, r) ==
    /\ g[t].pc = "m_engine"
    /\ g' = [g EXCEPT ![t].ret = r, ![t].pc = "idle"]
    /\ envMutex' = "free"
    /\ UNCHANGED <<mapsize, open_txns, writer, grownUnderTxn, coreVars>>

NextMutex ==
    \E t \in Threads :
        \/ \E call \in MutexCalls, pages \in PagesArgs :
              /\ call # "expand" => pages = 0
              /\ M_lock(t, call, pages)
        \/ M_open_transactions(t)
        \/ M_info(t)
        \/ \E ext \in ExtSizes(mapsize) : M_set_mapsize(t, ext)
        \/ \E r \in {SUCCESS, OtherFail} : M_engine(t, r)
        \/ GSetup(t)
        \/ \E r \in {SUCCESS, OtherFail} : GBegin(t, r)
        \/ GRegister(t)
        \/ GEnd(t)
        \/ GUnregister(t)

SpecMutex == Init /\ [][NextMutex]_vars

\* C4 as stated: the map size changes only while the engine has no
\* read-write transaction open.
C4_MapGrowsOnlyWithoutWriter == ~grownUnderTxn

(***************************************************************************)
(* SpecReg: two threads calling Environment::instance and                  *)
(* Environment::database.  A step is what a thread does between two        *)
(* acquisitions of a registry lock.  Destructors run inside the step that  *)
(* drops the last shared_ptr.  S is the state the destructors work on:     *)
(* the registries, the objects, and whether the thread hangs.              *)
(*                                                                         *)
(* Undefined behaviour: ~Environment locks Environment::mutex and then     *)
(* calls flush(), which locks it again; a destructor that runs inside      *)
(* ThreadSafeMap::erase or clear calls contains() on the same map.  With   *)
(* ub = "hang" the thread stops there holding its locks; with ub = "go"    *)
(* the second lock is granted.                                             *)
(***************************************************************************)
RegS == [environments |-> environments, envs |-> envs, dbos |-> dbos, stuck |-> stuck,
         hung |-> FALSE]

Hang(S, locks) == [S EXCEPT !.hung = TRUE, !.stuck = @ \cup locks]

RECURSIVE shared_ptr_release_env(_, _, _, _)
RECURSIVE shared_ptr_release_db(_, _, _, _)
RECURSIVE clear_from(_, _, _, _, _)
RECURSIVE Environment_dtor(_, _, _, _)
RECURSIVE Database_dtor(_, _, _, _)

\* Database::~Database: mdb_dbi_close; erase the name from the registry of
\* the member environment; then the member is released.
Database_dtor(S, d, ub, locks) ==
    LET e == S.dbos[d].env
        n == S.dbos[d].name
        S1 == [S EXCEPT !.envs[e].dbi = @ \ {n}, !.dbos[d].st = "dead"]
    IN  IF e \in S1.stuck \/ (e \in locks /\ ub = "hang")
        THEN Hang(S1, locks)
        ELSE LET old == S1.envs[e].dbs[n]
                 S2 == [S1 EXCEPT !.envs[e].dbs[n] = 0]
                 S3 == shared_ptr_release_db(S2, old, ub, locks \cup {e})
             IN  shared_ptr_release_env(S3, e, ub, locks)

\* ThreadSafeMap::clear on the databases registry of e, from entry i on.
clear_from(S, e, i, ub, locks) ==
    IF S.hung \/ i > Len(NameSeq)
    THEN S
    ELSE LET n == NameSeq[i]
             d == S.envs[e].dbs[n]
             S1 == [S EXCEPT !.envs[e].dbs[n] = 0]
         IN  clear_from(shared_ptr_release_db(S1, d, ub, locks), e, i + 1, ub, locks)

\* Environment::~Environment: lock mutex; databases.clear(); flush(true),
\* which locks mutex again and calls mdb_env_sync on the engine handle;
\* mdb_env_close; erase the path from Environment::environments.
Environment_dtor(S, e, ub, locks) ==
    LET S1 == clear_from(S, e, 1, ub, locks \cup {e})
        p == S.envs[e].path
    IN  IF S1.hung
        THEN [S1 EXCEPT !.envs[e].st = "dying"]
        ELSE IF ub = "hang"
        THEN Hang([S1 EXCEPT !.envs[e].st = "dying",
                             !.envs[e].log = SubSeq(TeardownSteps, 1, 1)], locks)
        ELSE IF EnvironmentsLock \in S1.stuck
        THEN Hang([S1 EXCEPT !.envs[e].st = "dying",
                             !.envs[e].late = (S1.envs[e].closes > 0),
                             !.envs[e].closes = @ + 1,
                             !.envs[e].log = SubSeq(TeardownSteps, 1, 3)], locks)
        ELSE LET old == S1.environments[p]
                 S2 == [S1 EXCEPT !.envs[e].st = "closed", !.envs[e].dbi = {},
                                  !.environments[p] = 0,
                                  !.envs[e].late = (S1.envs[e].closes > 0),
                                  !.envs[e].closes = @ + 1,
                                  !.envs[e].log = TeardownSteps]
             IN  shared_ptr_release_env(S2, old, ub, locks \cup {EnvironmentsLock})

\* A shared_ptr<Environment> to e goes away.
shared_ptr_release_env(S, e, ub, locks) ==
    IF S.hung \/ e = 0
    THEN S
    ELSE IF S.envs[e].refs > 1
    THEN [S EXCEPT !.envs[e].refs = @ - 1]
    ELSE Environment_dtor([S EXCEPT !.envs[e].refs = 0], e, ub, locks)

\* A shared_ptr<Database> to d goes away.
shared_ptr_release_db(S, d, ub, locks) ==
    IF S.hung \/ d = 0
    THEN S
    ELSE IF S.dbos[d].refs > 1
    THEN [S EXCEPT !.dbos[d].refs = @ - 1]
    ELSE Database_dtor([S EXCEPT !.dbos[d].refs = 0], d, ub, locks)

nonRegVars == <<mapsize, open_txns, writer, store, txns, pc, arg, hist, last, present,
                growVars, lockVars, byteVars, mapVars, curVars>>

SetReg(S) ==
    /\ environments' = S.environments
    /\ envs' = S.envs
    /\ dbos' = S.dbos
    /\ stuck' = S.stuck

\* The outcome of the call of thread t.
Outcome(t, how, obj, engFail) ==
    [call |-> frames[t].top, how |-> how, obj |-> obj, absent |-> frames[t].absent,
     conc |-> frames[t].conc, engFail |-> engFail, opts |-> frames[t].opts,
     reg |-> frames[t].reg, on |-> frames[t].on]

\* The call of thread t ends: it returns obj, or raises.
Finish(t, how, obj, engFail) ==
    /\ frames' = [frames EXCEPT ![t] = NoFrame]
    /\ res' = [res EXCEPT ![t] = Outcome(t, how, obj, engFail)]

\* Thread t hangs inside its call.
Hung(t, engFail) ==
    /\ frames' = [frames EXCEPT ![t].pc = "hung"]
    /\ res' = [res EXCEPT ![t] = Outcome(t, "hung", 0, engFail)]

\* Thread t enters a call; f is its frame, same the threads that are inside
\* the same call for the same key.
Enter(t, f, same) ==
    /\ frames[t].pc = "idle"
    /\ frames' = [x \in Threads |->
                    IF x = t
                    THEN [f EXCEPT !.conc = (same \ {t} # {})]
                    ELSE IF x \in same THEN [frames[x] EXCEPT !.conc = TRUE]
                    ELSE frames[x]]
    /\ res' = [res EXCEPT ![t] = NoRes]

NewEnvId == CHOOSE e \in EnvIds :
                /\ envs[e].st = "unborn"
                /\ \A e2 \in EnvIds : e2 < e => envs[e2].st # "unborn"
NewDbId == CHOOSE d \in DbIds :
               /\ dbos[d].st = "unborn"
               /\ \A d2 \in DbIds : d2 < d => dbos[d2].st # "unborn"

\* Environment::instance(path, flags, mode, growth_factor, max_databases) is
\* called by the user.
CallInstance(t, p, opt) ==
    /\ LET same == {o \in Threads : /\ frames[o].pc # "idle"
                                     /\ frames[o].top = "instance"
                                     /\ frames[o].path = p}
       IN  Enter(t, [NoFrame EXCEPT !.pc = "i_contains", !.top = "instance", !.path = p,
                                    !.opts = opt, !.reg = environments[p]],
                 same)
    /\ UNCHANGED <<environments, envs, dbos, stuck, held, dupCreated, nonRegVars>>

I_contains_never_found(t) ==
    /\ frames[t].pc = "i_contains"
    /\ EnvironmentsLock \notin stuck
    /\ frames' = [frames EXCEPT ![t].pc = "i_new",
                                ![t].absent = IF frames[t].caller = "user" THEN TRUE ELSE @]
    /\ UNCHANGED <<environments, envs, dbos, stuck, held, res, dupCreated, nonRegVars>>

\* if (!Environment::environments.contains(file.path()))
I_contains(t) ==
    /\ frames[t].pc = "i_contains"
    /\ EnvironmentsLock \notin stuck
    /\ LET found == environments[frames[t].path] # 0
       IN  frames' = [frames EXCEPT
                        ![t].pc = IF found THEN "i_at" ELSE "i_new",
                        ![t].absent = IF frames[t].caller = "user" THEN ~found ELSE @]
    /\ UNCHANGED <<environments, envs, dbos, stuck, held, res, dupCreated, nonRegVars>>

\* std::shared_ptr<Environment> db(new Environment(...)); mdb_env_create,
\* mdb_env_set_mapsize, mdb_env_set_maxdbs, mdb_env_open.  When the engine
\* refuses, the handle is closed, the call throws and `db` is destroyed.
I_new(t, ok, ub) ==
    /\ frames[t].pc = "i_new"
    /\ \E e \in EnvIds : envs[e].st = "unborn"
    /\ LET e == NewEnvId
           p == frames[t].path
           born == [NoEnvObj EXCEPT !.st = IF ok THEN "open" ELSE "failed",
                                    !.closes = IF ok THEN 0 ELSE 1,
                                    !.refs = 1, !.path = p,
                                    !.opts = IF frames[t].caller = "user"
                                             THEN frames[t].opts ELSE "default"]
           S == shared_ptr_release_env([RegS EXCEPT !.envs[e] = born], e, ub, {})
       IN  IF ok
           THEN /\ envs' = [envs EXCEPT ![e] = born]
                /\ frames' = [frames EXCEPT ![t].pc = "i_insert", ![t].db = e]
                /\ dupCreated' = (dupCreated \/ \E e2 \in EnvIds :
                                                   envs[e2].st = "open" /\ envs[e2].path = p)
                /\ UNCHANGED <<environments, dbos, stuck, res>>
           ELSE /\ SetReg(S)
                /\ IF S.hung THEN Hung(t, TRUE) ELSE Finish(t, "raised", 0, TRUE)
                /\ UNCHANGED dupCreated
    /\ UNCHANGED <<held, nonRegVars>>

\* Environment::environments.insert(db->path, db): nothing happens when the
\* key is there.
I_insert(t) ==
    /\ frames[t].pc = "i_insert"
    /\ EnvironmentsLock \notin stuck
    /\ LET e == frames[t].db
           p == frames[t].path
       IN  IF environments[p] = 0
           THEN /\ environments' = [environments EXCEPT ![p] = e]
                /\ envs' = [envs EXCEPT ![e].refs = @ + 1]
           ELSE UNCHANGED <<environments, envs>>
    /\ frames' = [frames EXCEPT ![t].pc = "i_endblock"]
    /\ UNCHANGED <<dbos, stuck, held, res, dupCreated, nonRegVars>>

\* The block of the if ends: the local `db` is destroyed.
I_endblock(t, ub) ==
    /\ frames[t].pc = "i_endblock"
    /\ LET S == shared_ptr_release_env(RegS, frames[t].db, ub, {})
       IN  /\ SetReg(S)
           /\ IF S.hung
              THEN Hung(t, FALSE)
              ELSE /\ frames' = [frames EXCEPT ![t].pc = "i_at", ![t].db = 0]
                   /\ UNCHANGED res
    /\ UNCHANGED <<held, dupCreated, nonRegVars>>

\* return Environment::environments.at(file.path()): throws
\* std::out_of_range when the key is absent.
I_at(t) ==
    /\ frames[t].pc = "i_at"
    /\ EnvironmentsLock \notin stuck
    /\ LET e == environments[frames[t].path]
       IN  IF e = 0
           THEN /\ Finish(t, "raised", 0, FALSE)
                /\ UNCHANGED <<envs, held>>
           ELSE IF frames[t].caller = "user"
           THEN /\ Finish(t, "ok", e, FALSE)
                /\ held' = [held EXCEPT ![t].envs = @ \cup {e}]
                /\ envs' = IF e \in held[t].envs THEN envs
                           ELSE [envs EXCEPT ![e].refs = @ + 1]
           ELSE /\ frames' = [frames EXCEPT ![t].pc = "d_new", ![t].env = e]
                /\ envs' = [envs EXCEPT ![e].refs = @ + 1]
                /\ UNCHANGED <<held, res>>
    /\ UNCHANGED <<environments, dbos, stuck, dupCreated, nonRegVars>>

\* Environment::database(name, enable_compression, flags) is called by the
\* user on a handle e.
CallDatabase(t, e, n, opt) ==
    /\ e \in held[t].envs
    /\ LET same == {o \in Threads : /\ frames[o].pc # "idle"
                                     /\ frames[o].top = "database"
                                     /\ frames[o].self = e
                                     /\ frames[o].name = n}
       IN  Enter(t, [NoFrame EXCEPT !.pc = "d_contains", !.top = "database", !.self = e,
                                    !.name = n, !.path = envs[e].path,
                                    !.opts = opt, !.reg = envs[e].dbs[n]],
                 same)
    /\ UNCHANGED <<environments, envs, dbos, stuck, held, dupCreated, nonRegVars>>

\* A database() that takes the name for absent whatever the registry holds.
D_contains_never_found(t) ==
    /\ frames[t].pc = "d_contains"
    /\ frames[t].self \notin stuck
    /\ frames' = [frames EXCEPT ![t].pc = "i_contains", ![t].caller = "database",
                                ![t].absent = TRUE]
    /\ UNCHANGED <<environments, envs, dbos, stuck, held, res, dupCreated, nonRegVars>>

\* if (!databases.contains(name)); when absent, auto _env = instance(path)
\* is entered.
D_contains(t) ==
    /\ frames[t].pc = "d_contains"
    /\ frames[t].self \notin stuck
    /\ LET found == envs[frames[t].self].dbs[frames[t].name] # 0
       IN  frames' = [frames EXCEPT
                        ![t].pc = IF found THEN "d_at" ELSE "i_contains",
                        ![t].caller = IF found THEN @ ELSE "database",
                        ![t].absent = ~found]
    /\ UNCHANGED <<environments, envs, dbos, stuck, held, res, dupCreated, nonRegVars>>

\* std::shared_ptr<Database> db(new Database(_env, name, ...)): a
\* Transaction, mdb_dbi_open, commit.  The engine gives one handle per name.
\* When the engine refuses, the constructor throws and `_env` is destroyed.
D_new(t, ok, ub) ==
    /\ frames[t].pc = "d_new"
    /\ \E d \in DbIds : dbos[d].st = "unborn"
    /\ LET d == NewDbId
           e == frames[t].env
           n == frames[t].name
           S == shared_ptr_release_env(RegS, e, ub, {})
       IN  IF ok
           THEN /\ dbos' = [dbos EXCEPT ![d] = [st |-> "alive", refs |-> 1, name |-> n,
                                                env |-> e, owner |-> frames[t].self,
                                                opts |-> frames[t].opts]]
                /\ envs' = [envs EXCEPT ![e].refs = @ + 1, ![e].dbi = @ \cup {n}]
                /\ frames' = [frames EXCEPT ![t].pc = "d_insert", ![t].dbl = d]
                /\ dupCreated' = (dupCreated \/ \E d2 \in DbIds :
                                                   /\ dbos[d2].st = "alive"
                                                   /\ dbos[d2].name = n
                                                   /\ dbos[d2].owner = frames[t].self)
                /\ UNCHANGED <<environments, stuck, res>>
           ELSE /\ SetReg(S)
                /\ IF S.hung THEN Hung(t, TRUE) ELSE Finish(t, "raised", 0, TRUE)
                /\ UNCHANGED dupCreated
    /\ UNCHANGED <<held, nonRegVars>>

\* databases.insert(name, db): nothing happens when the key is there.
D_insert(t) ==
    /\ frames[t].pc = "d_insert"
    /\ frames[t].self \notin stuck
    /\ LET e == frames[t].self
           n == frames[t].name
           d == frames[t].dbl
       IN  IF envs[e].dbs[n] = 0
           THEN /\ envs' = [envs EXCEPT ![e].dbs[n] = d]
                /\ dbos' = [dbos EXCEPT ![d].refs = @ + 1]
           ELSE UNCHANGED <<envs, dbos>>
    /\ frames' = [frames EXCEPT ![t].pc = "d_endblock"]
    /\ UNCHANGED <<environments, stuck, held, res, dupCreated, nonRegVars>>

\* The block of the if ends: the locals `db` and `_env` are destroyed, in
\* this order.
D_endblock(t, ub) ==
    /\ frames[t].pc = "d_endblock"
    /\ LET S1 == shared_ptr_release_db(RegS, frames[t].dbl, ub, {})
           S == shared_ptr_release_env(S1, frames[t].env, ub, {})
       IN  /\ SetReg(S)
           /\ IF S.hung
              THEN Hung(t, FALSE)
              ELSE /\ frames' = [frames EXCEPT ![t].pc = "d_at", ![t].dbl = 0, ![t].env = 0]
                   /\ UNCHANGED res
    /\ UNCHANGED <<held, dupCreated, nonRegVars>>

\* return databases.at(name): throws std::out_of_range when the key is
\* absent.
D_at(t) ==
    /\ frames[t].pc = "d_at"
    /\ frames[t].self \notin stuck
    /\ LET d == envs[frames[t].self].dbs[frames[t].name]
       IN  IF d = 0
           THEN /\ Finish(t, "raised", 0, FALSE)
                /\ UNCHANGED <<dbos, held>>
           ELSE /\ Finish(t, "ok", d, FALSE)
                /\ held' = [held EXCEPT ![t].dbs = @ \cup {d}]
                /\ dbos' = IF d \in held[t].dbs THEN dbos
                           ELSE [dbos EXCEPT ![d].refs = @ + 1]
    /\ UNCHANGED <<environments, envs, stuck, dupCreated, nonRegVars>>

\* The user lets go of the handle to Environment e that thread t holds.
ReleaseEnv(t, e, ub) ==
    /\ frames[t].pc = "idle"
    /\ e \in held[t].envs
    /\ LET S == shared_ptr_release_env(RegS, e, ub, {})
       IN  /\ SetReg(S)
           /\ IF S.hung THEN Hung(t, FALSE) ELSE UNCHANGED <<frames, res>>
    /\ held' = [held EXCEPT ![t].envs = @ \ {e}]
    /\ UNCHANGED <<dupCreated, nonRegVars>>

\* The user lets go of the handle to Database d that thread t holds.
ReleaseDb(t, d, ub) ==
    /\ frames[t].pc = "idle"
    /\ d \in held[t].dbs
    /\ LET S == shared_ptr_release_db(RegS, d, ub, {})
       IN  /\ SetReg(S)
           /\ IF S.hung THEN Hung(t, FALSE) ELSE UNCHANGED <<frames, res>>
    /\ held' = [held EXCEPT ![t].dbs = @ \ {d}]
    /\ UNCHANGED <<dupCreated, nonRegVars>>

UBs == {"hang", "go"}

NextReg ==
    \E t \in Threads :
        \/ \E p \in Paths : CallInstance(t, p, "default")
        \/ I_contains(t)
        \/ \E ok \in BOOLEAN, ub \in UBs : I_new(t, ok, ub)
        \/ I_insert(t)
        \/ \E ub \in UBs : I_endblock(t, ub)
        \/ I_at(t)
        \/ \E e \in EnvIds, n \in Names : CallDatabase(t, e, n, "default")
        \/ D_contains(t)
        \/ \E ok \in BOOLEAN, ub \in UBs : D_new(t, ok, ub)
        \/ D_insert(t)
        \/ \E ub \in UBs : D_endblock(t, ub)
        \/ D_at(t)

SpecReg == Init /\ [][NextReg]_vars

(***************************************************************************)
(* SpecRel: one thread that calls Environment::instance and                *)
(* Environment::database and lets go of the handles it was given.          *)
(***************************************************************************)
NextRel ==
    \/ \E p \in Paths, o \in Opts : CallInstance("t1", p, o)
    \/ I_contains("t1")
    \/ \E ok \in BOOLEAN, ub \in UBs : I_new("t1", ok, ub)
    \/ I_insert("t1")
    \/ \E ub \in UBs : I_endblock("t1", ub)
    \/ I_at("t1")
    \/ \E e \in EnvIds, n \in Names, o \in Opts : CallDatabase("t1", e, n, o)
    \/ D_contains("t1")
    \/ \E ok \in BOOLEAN, ub \in UBs : D_new("t1", ok, ub)
    \/ D_insert("t1")
    \/ \E ub \in UBs : D_endblock("t1", ub)
    \/ D_at("t1")
    \/ \E e \in EnvIds, ub \in UBs : ReleaseEnv("t1", e, ub)
    \/ \E d \in DbIds, ub \in UBs : ReleaseDb("t1", d, ub)

SpecRel == Init /\ [][NextRel]_vars

(***************************************************************************)
(* SpecFlag: the thread of SpecRel also calls Database::transaction on the *)
(* Database handles it holds.                                              *)
(***************************************************************************)
\* Database::compressed().
Database_compressed(d) == dbos[d].opts

\* Database::transaction(readonly) called on the handle d: it calls
\* environment->database(name) on its member environment with the default
\* arguments; the Transaction is built on the handle that call returns.
CallTransaction(t, d) ==
    /\ d \in held[t].dbs
    /\ LET e == dbos[d].env
           n == dbos[d].name
       IN  Enter(t, [NoFrame EXCEPT !.pc = "d_contains", !.top = "transaction",
                                    !.self = e, !.name = n, !.path = envs[e].path,
                                    !.reg = envs[e].dbs[n], !.on = d],
                 {})
    /\ UNCHANGED <<environments, envs, dbos, stuck, held, dupCreated, nonRegVars>>

NextFlag ==
    \/ NextRel
    \/ \E d \in DbIds : CallTransaction("t1", d)

SpecFlag == Init /\ [][NextFlag]_vars

\* Two calls of the same kind for the same key that ran at the same time,
\* both found the key absent, and have both ended without a refusal of the
\* engine.
Raced(t1, t2, call) ==
    /\ t1 # t2
    /\ \A t \in {t1, t2} :
          /\ res[t].call = call
          /\ res[t].conc
          /\ res[t].absent
          /\ ~res[t].engFail

\* C1 as stated: two concurrent Environment::instance calls for a path that
\* is not registered both return normally, and return the same object.
C1_InstanceRaceSameObject ==
    \A t1, t2 \in Threads :
        Raced(t1, t2, "instance")
            => /\ res[t1].how = "ok"
               /\ res[t2].how = "ok"
               /\ res[t1].obj = res[t2].obj

\* C2 as stated: two concurrent Environment::database calls for a name that
\* is not registered both return normally, and return the same object,
\* whose keyspace handle is open.
C2_DatabaseRaceSameObject ==
    \A t1, t2 \in Threads :
        Raced(t1, t2, "database")
            => /\ res[t1].how = "ok"
               /\ res[t2].how = "ok"
               /\ res[t1].obj = res[t2].obj
               /\ dbos[res[t1].obj].name \in envs[dbos[res[t1].obj].env].dbi

\* C3 as stated: no object is created for a key while another object created
\* for that key is alive.
C3_CreatedOncePerKey == ~dupCreated

(***************************************************************************)
(* Properties of the Transaction object (specification Spec).              *)
(***************************************************************************)
\* C5: a read-write Transaction that wrote and is then destroyed without
\* commit, or aborted explicitly, leaves the committed content exactly as it
\* was when the Transaction was opened (so a key it put is still absent);
\* and while a read-write Transaction is open the committed content is the
\* content it was opened on.
C5_AbortDiscards ==
    /\ (last.op \in {"abort", "destroy"} /\ last.dirty) => last.kept
    /\ \A id \in TxnIds : (Live(id) /\ IsRW(id)) => store = txns[id].base

\* A Transaction that had put a key into an empty database was destroyed
\* without commit, and the key is absent.
C5_Witness ==
    /\ last.op = "destroy"
    /\ last.dirty
    /\ store = EmptyStore

StoredPairs == {nk \in Names \X Keys : store[nk[1]][nk[2]] # NoVal}

\* C7: every full condition met by Database::put is answered by abort,
\* expand() and a retry in a fresh Transaction; a put call in which expand()
\* never failed and no other failure occurred returns success with the value
\* stored; and the keys in the store are exactly the distinct keys inserted
\* (and not removed since), so the key count equals their number.
C7_PutGrowsAndSucceeds ==
    /\ (pc = "w_try") => (txns[0] = NoTxn /\ open_txns = 0 /\ writer = NoWriter)
    /\ (arg.op = "put" /\ hist.full /\ ~hist.expFailed) => hist.expands >= 1
    /\ (arg.op = "put" /\ hist.full /\ ~hist.expFailed /\ hist.done) => hist.attempts >= 2
    /\ (arg.op = "put" /\ hist.done /\ ~hist.expFailed /\ ~hist.other)
          => /\ hist.how = "ret"
             /\ hist.ret = SUCCESS
             /\ store[arg.name][arg.key] = arg.val
    /\ StoredPairs = present
    /\ Cardinality(StoredPairs) = Cardinality(present)

\* A put met a full condition, the map was grown, the retry succeeded, and
\* the store now holds two keys.
C7_Witness ==
    /\ arg.op = "put"
    /\ hist.done
    /\ hist.expands >= 1
    /\ hist.ret = SUCCESS
    /\ store[arg.name][arg.key] = arg.val
    /\ Cardinality(present) = 2

\* C8 as stated: when put or del meets a full condition and the following
\* expand() fails, the call ends and returns the error of expand().
C8_ReturnsExpandError ==
    (arg.op \in {"put", "del"} /\ hist.expFailed)
        => (hist.done /\ hist.how = "ret" /\ hist.ret = hist.expErr)

\* C8, amended: when put or del meets a full condition and the following
\* expand() fails, the call does not retry and returns the map-full or
\* transaction-full error it met; the error of expand() is dropped.
C8_ReturnsFullError ==
    (arg.op \in {"put", "del"} /\ hist.expFailed)
        => /\ hist.done
           /\ pc = "idle"
           /\ ~hist.retriedAfterFail
           /\ hist.how = "ret"
           /\ hist.ret \in FullCodes
           /\ hist.expErr \notin FullCodes

\* A put met a full condition, expand() failed, and the call has returned.
C8_Witness ==
    /\ arg.op = "put"
    /\ hist.expFailed
    /\ hist.done

\* C9 as stated: when Database::drop meets map-full and expand() then fails,
\* drop does not retry and returns an error.
C9_DropStopsOnExpandFailure ==
    (arg.op = "drop" /\ hist.expFailed)
        => (~hist.retriedAfterFail /\ pc = "idle" /\ hist.done /\ hist.ret # SUCCESS)

\* C10 as stated: an operation on a Transaction without a live handle returns
\* an error and does not reach the engine.
C10_DeadHandleFailsExplicitly ==
    (last.dead /\ last.op \in {"commit", "get", "put", "del", "exists", "cursor",
                                "id", "renew"})
        => (last.how = "ret" /\ last.err # SUCCESS /\ ~last.eng)

\* C11: no Cursor operation (get, get_all, put, del, count, renew) reaches
\* the engine with a cursor whose Transaction has been committed or aborted.
C11_NoEngineCallOnEndedTxnCursor ==
    last.op \in {"cget", "cget_all", "cput", "cdel", "ccount", "crenew"}
        => ~(last.stale /\ last.eng)

\* C12: Transaction::commit on a live handle consumes the transaction
\* whether the engine's commit succeeds or fails: the handle is cleared and
\* a read-write Transaction is unregistered exactly once.  A later commit
\* returns LMDB_BAD_TXN without calling the engine, and a later abort or
\* destruction does nothing and unregisters nothing.
C12_CommitConsumes ==
    /\ (last.op = "commit" /\ last.eng)
           => /\ ~Live(last.id)
              /\ last.unreg = IF last.rw THEN 1 ELSE 0
    /\ (last.op = "commit" /\ last.dead)
           => last.err = LMDB_BAD_TXN /\ ~last.eng /\ last.unreg = 0
    /\ (last.op \in {"abort", "destroy"} /\ last.dead)
           => ~last.eng /\ last.unreg = 0

\* A read-write Transaction whose engine commit failed: the handle is gone
\* and the counter went down by one.
C12_Witness ==
    /\ last.op = "commit" /\ last.eng /\ last.rw
    /\ last.err # SUCCESS
    /\ ~Live(last.id) /\ txns[last.id].st # "none"
    /\ last.unreg = 1

\* C13: a Transaction that writes to database A, switches to database B with
\* use(), writes to B and commits makes both writes part of the committed
\* content together; when the commit fails, or the Transaction is aborted or
\* destroyed, the committed content stays what it was; while the Transaction
\* is live a reader sees none of its writes.
C13_MultiDbAtomic ==
    /\ \A id \in UserTxn : (Live(id) /\ IsRW(id)) => store = txns[id].base
    /\ (last.op = "commit" /\ last.rw)
           => IF last.err = SUCCESS THEN last.all ELSE last.kept
    /\ (last.op \in {"abort", "destroy"} /\ last.rw) => last.kept

\* A commit that published writes to both databases at once.
C13_Witness ==
    /\ last.op = "commit" /\ last.rw /\ last.err = SUCCESS
    /\ last.multi /\ last.all
    /\ \A n \in Names : store[n]["k1"] # NoVal

\* A failed commit of a Transaction that had written to both databases.
C13_WitnessFailed ==
    /\ last.op = "commit" /\ last.rw /\ last.err # SUCCESS
    /\ last.multi /\ last.kept

\* The data operations of a Transaction.
DataOps == {"get", "put", "del", "exists", "cursor"}

\* The operation recorded in last failed.
Failed ==
    \/ last.how = "throw"
    \/ last.op = "exists" /\ last.val = "false"
    \/ last.op # "exists" /\ last.err # SUCCESS

\* A get that repeats, after reset and renew, a get made before the reset
\* returns what that get returned when nothing was committed in between.
C14_SameValueAfterRenew ==
    (last.op = "get" /\ last.again)
        => /\ last.err = txns[last.id].seen.err
           /\ last.val = txns[last.id].seen.v

\* C14 as stated: get(k), reset(), renew(), get(k) on a read-only Transaction
\* returns the same value both times, and every operation attempted between
\* reset() and renew() fails.
C14_EveryOperationBetweenFails ==
    /\ C14_SameValueAfterRenew
    /\ (last.op \in DataOps \cup {"id", "commit"} /\ last.reset) => Failed

\* C14 amended: get(k), reset(), renew(), get(k) on a read-only Transaction
\* returns the same value both times, and every data operation (get, put,
\* del, exists, cursor) attempted between reset() and renew() fails, while
\* id() succeeds there.
C14_DataOperationsBetweenFail ==
    /\ C14_SameValueAfterRenew
    /\ (last.op \in DataOps /\ last.reset) => Failed
    /\ (last.op = "id" /\ last.reset) => ~Failed

\* A key that is present read again after reset and renew.
C14_Witness ==
    /\ last.op = "get" /\ last.again
    /\ last.err = SUCCESS /\ last.val # NoVal

\* The operation recorded in last was refused by the layer for a violated
\* precondition: growth with open transactions, an operation on a
\* Transaction without a live handle, reset or renew on a Transaction that
\* is not read-only, a write or renew on a read-only Cursor.
PreconditionViolated ==
    \/ last.op \in {"expand", "expand_pages", "detect"} /\ ~last.eng /\ last.err # SUCCESS
    \/ last.dead
    \/ last.op \in {"reset", "renew"} /\ ~last.eng
    \/ last.op \in {"cput", "cdel", "crenew"} /\ ~last.eng

\* C15: every precondition violation raised by the layer is reported as a
\* returned error value whose code is a code of the layer and no engine code.
C15_ViolationsReturnLayerCode ==
    PreconditionViolated
        => /\ last.how = "ret"
           /\ last.err \in LayerCodes
           /\ last.err \notin EngineCodes

C17_OtherFailureReturnedUnchanged ==
    (arg.op \in WriteOps /\ hist.done /\ hist.how = "ret")
        => /\ hist.other
                 => /\ hist.ret = hist.fail
                    /\ hist.ret \notin FullCodes \cup {SUCCESS}
                    /\ store = hist.entry
           /\ (hist.other /\ ~hist.full)
                 => /\ hist.attempts = 1
                    /\ hist.expands = 0
                    /\ ~hist.expFailed
           /\ (arg.op # "put" /\ hist.entry[arg.name][arg.key] = NoVal)
                 => hist.ret = LMDB_NOTFOUND

\* Database::del of a key that is absent, in a keyspace that holds others.
C17_Witness ==
    /\ arg.op \in {"del", "del_value"} /\ hist.done /\ hist.how = "ret"
    /\ hist.entry[arg.name][arg.key] = NoVal
    /\ Entries(store) # {}
    /\ hist.other /\ hist.ret = LMDB_NOTFOUND /\ hist.attempts = 1

\* Database::put refused by the operation itself (MDB_NOOVERWRITE).
C17_WitnessPut ==
    /\ arg.op = "put" /\ hist.done /\ hist.how = "ret"
    /\ hist.other /\ ~hist.full /\ hist.ret = LMDB_KEYEXIST

\* Database::put whose commit failed.
C17_WitnessCommit ==
    /\ arg.op = "put" /\ hist.done /\ hist.how = "ret"
    /\ hist.other /\ ~hist.full /\ hist.ret = OtherFail

\* C18: Database::drop never swallows a failure: when mdb_drop fails with a
\* condition other than the map-full one that is retried, that condition is
\* what the call returns, and the Transaction is not committed.
C18_DropReturnsItsFailure ==
    (arg.op = "drop" /\ hist.done /\ hist.how = "ret"
         /\ hist.fail \notin {SUCCESS, LMDB_MAP_FULL})
        => /\ hist.ret = hist.fail
           /\ ~hist.committed

\* No thread is inside a call and no thread holds a handle.
Quiescent == \A t \in Threads : frames[t].pc = "idle" /\ held[t] = NoHeld

\* C19: once every external owner of an Environment has let go of its
\* handle, the Environment is torn down (engine handle closed, path removed
\* from the registry); likewise a Database.  Destructors run inside the step
\* that drops the last handle, so in a state where nobody holds a handle and
\* no call is running the teardown has to be over.
C19_TornDownWhenUnowned ==
    Quiescent
        => /\ \A e \in EnvIds : envs[e].st # "open"
           /\ \A p \in Paths : environments[p] = 0
           /\ \A d \in DbIds : dbos[d].st # "alive"

\* C20: whenever an Environment is torn down, all steps of the teardown
\* happen, in order: the Databases it owns are released, the forced flush,
\* the close of the engine handle, the removal of the path from the registry.
C20_TeardownCompleteInOrder ==
    \A e \in EnvIds : envs[e].st \in {"dying", "closed"} => envs[e].log = TeardownSteps
(***************************************************************************)
(* The value codec.  load_value compresses with snappy::Compress when the  *)
(* Database was opened with compression; load_result passes every byte     *)
(* string it reads to snappy::Uncompress and keeps the output whenever the *)
(* call succeeds.  A snappy stream is the uncompressed length as a varint  *)
(* followed by elements: a literal (tag % 4 = 0, its length in the tag,    *)
(* then the bytes) or a copy of bytes already produced.                    *)
(***************************************************************************)
NoOutput == [ok |-> FALSE, out |-> <<>>]

\* snappy::Compress of an input shorter than the 15 bytes below which the
\* compressor emits the whole input as one literal.
Compress(V) ==
    IF V = <<>> THEN <<0>> ELSE <<Len(V), (Len(V) - 1) * 4>> \o V

RECURSIVE Varint(_, _)
\* The varint that starts at position i of S.
Varint(S, i) ==
    IF i > Len(S)
    THEN [ok |-> FALSE, val |-> 0, next |-> i]
    ELSE IF S[i] < 128
    THEN [ok |-> TRUE, val |-> S[i], next |-> i + 1]
    ELSE LET more == Varint(S, i + 1)
         IN  [ok |-> more.ok, val |-> (S[i] - 128) + 128 * more.val, next |-> more.next]

RECURSIVE CopyBack(_, _, _)
\* n bytes appended to out, each the byte off positions before the end.
CopyBack(out, off, n) ==
    IF n = 0 THEN out ELSE CopyBack(Append(out, out[Len(out) + 1 - off]), off, n - 1)

RECURSIVE DecompressAllTags(_, _, _)
\* The elements of S from position i on, decoded after out.
DecompressAllTags(S, i, out) ==
    IF i > Len(S)
    THEN [ok |-> TRUE, out |-> out]
    ELSE LET tag == S[i]
             kind == tag % 4
         IN  IF kind = 0
             THEN LET n == (tag \div 4) + 1
                  IN  IF n > 60 \/ i + n > Len(S)
                      THEN NoOutput
                      ELSE DecompressAllTags(S, i + n + 1, out \o SubSeq(S, i + 1, i + n))
             ELSE IF kind = 1
             THEN IF i + 1 > Len(S)
                  THEN NoOutput
                  ELSE LET n == 4 + ((tag \div 4) % 8)
                           off == (tag \div 32) * 256 + S[i + 1]
                       IN  IF off = 0 \/ off > Len(out)
                           THEN NoOutput
                           ELSE DecompressAllTags(S, i + 2, CopyBack(out, off, n))
             ELSE IF kind = 2
             THEN IF i + 2 > Len(S)
                  THEN NoOutput
                  ELSE LET n == (tag \div 4) + 1
                           off == S[i + 1] + 256 * S[i + 2]
                       IN  IF off = 0 \/ off > Len(out)
                           THEN NoOutput
                           ELSE DecompressAllTags(S, i + 3, CopyBack(out, off, n))
             ELSE NoOutput

Uncompress_rejecting(S) == NoOutput

\* snappy::Uncompress: succeeds when S is a well-formed stream whose elements
\* decode to as many bytes as its length field says.
Uncompress(S) ==
    LET len == Varint(S, 1)
        d == DecompressAllTags(S, len.next, <<>>)
    IN  IF len.ok /\ d.ok /\ Len(d.out) = len.val THEN d ELSE NoOutput

load_value(value, compressed) == IF compressed THEN Compress(value) ELSE value

load_result(value) ==
    LET uncompressed == Uncompress(value)
    IN  IF uncompressed.ok THEN uncompressed.out ELSE value

(***************************************************************************)
(* The engine at byte level: entries are ordered by key, and under one     *)
(* key by value, both compared byte by byte with the shorter of two        *)
(* strings that agree first.                                               *)
(***************************************************************************)
RECURSIVE LessFrom(_, _, _)
LessFrom(a, b, i) ==
    IF i > Len(a) THEN i <= Len(b)
    ELSE IF i > Len(b) THEN FALSE
    ELSE IF a[i] # b[i] THEN a[i] < b[i]
    ELSE LessFrom(a, b, i + 1)

EntryLess(p, q) ==
    \/ LessFrom(p[1], q[1], 1)
    \/ p[1] = q[1] /\ LessFrom(p[2], q[2], 1)

RECURSIVE Walk(_)
\* The entries in the order a cursor visits them with MDB_FIRST, MDB_NEXT.
Walk(S) ==
    IF S = {}
    THEN <<>>
    ELSE LET m == CHOOSE p \in S : \A q \in S \ {p} : EntryLess(p, q)
         IN  <<m>> \o Walk(S \ {m})

\* The entries stored under the key bytes k.
Under(S, k) == {p \in S : p[1] = k}

\* mdb_put without flags: in a keyspace without MDB_DUPSORT the entry of the
\* key is replaced.
mdb_put_bytes(S, dup, k, v) ==
    (IF dup THEN S ELSE S \ Under(S, k)) \cup {<<k, v>>}

\* Transaction::get: the key as given, the first value under it decoded.
Transaction_get(S, key) ==
    LET i_key == load_value(key, FALSE)
        hit == Walk(Under(S, i_key))
    IN  IF hit = <<>>
        THEN [err |-> LMDB_NOTFOUND, val |-> <<>>]
        ELSE [err |-> SUCCESS, val |-> load_result(hit[1][2])]

\* Cursor::get(key, length, MDB_SET).
Cursor_get(S, key) ==
    LET i_key == load_value(key, FALSE)
        hit == Walk(Under(S, i_key))
    IN  IF hit = <<>>
        THEN [err |-> LMDB_NOTFOUND, key |-> <<>>, val |-> <<>>]
        ELSE [err |-> SUCCESS, key |-> load_result(hit[1][1]),
              val |-> load_result(hit[1][2])]

Cursor_get_all_keeping_key(S, key) ==
    LET hit == Walk(Under(S, load_value(key, FALSE)))
    IN  [err |-> IF hit = <<>> THEN LMDB_EMPTY ELSE SUCCESS,
         key |-> load_result(key),
         list |-> [i \in 1..Len(hit) |-> load_result(hit[i][2])]]

\* Cursor::get_all: MDB_SET, then MDB_NEXT_DUP until it fails.
Cursor_get_all(S, key) ==
    LET hit == Walk(Under(S, load_value(key, FALSE)))
        results == [i \in 1..Len(hit) |-> load_result(hit[i][2])]
    IN  [err |-> IF results # <<>> THEN SUCCESS ELSE LMDB_EMPTY,
         key |-> IF hit = <<>> THEN <<>> ELSE load_result(hit[1][1]),
         list |-> results]

RECURSIVE list_keys_loop(_, _, _, _, _, _)
\* The do-while loop of Database::list_keys over the cursor walk w: pos is
\* where the cursor stands.  `continue` skips count++, and the cursor is put
\* on the first entry again as long as count is 0.
list_keys_loop(w, pos, count, last_key, results, ignore_duplicates) ==
    LET at == IF count = 0 THEN 1 ELSE pos + 1
    IN  IF at > Len(w)
        THEN [how |-> "ret", list |-> results]
        ELSE LET key == load_result(w[at][1])
             IN  IF ignore_duplicates /\ key = last_key
                 THEN IF count = 0
                      THEN [how |-> "hang", list |-> results]
                      ELSE list_keys_loop(w, at, count, last_key, results,
                                          ignore_duplicates)
                 ELSE list_keys_loop(w, at, count + 1, key, Append(results, key),
                                     ignore_duplicates)

list_keys(S, ignore_duplicates) ==
    list_keys_loop(Walk(S), 0, 0, <<>>, <<>>, ignore_duplicates)

\* Database::count: one count++ for every entry the cursor visits.
count(S) == Len(Walk(S))

(***************************************************************************)
(* Calls on the Database handle, each in a transaction of its own that     *)
(* the engine accepts.                                                     *)
(***************************************************************************)
nonByteVars == <<mapsize, open_txns, writer, store, txns, pc, arg, hist, last, present,
                 growVars, lockVars, mapVars, regVars, curVars>>

\* Environment::database(name, enable_compression, flags) creates the handle.
BytesOpen(comp, dup) ==
    /\ bdb.st = "none"
    /\ bdb' = [st |-> "open", comp |-> comp, dup |-> dup]
    /\ bio' = [NoIo EXCEPT !.op = "open"]
    /\ UNCHANGED <<raw, ref, nonByteVars>>

\* Database::put(key, value).
BytesPut(k, v) ==
    /\ bdb.st = "open"
    /\ raw' = mdb_put_bytes(raw, bdb.dup, load_value(k, FALSE), load_value(v, bdb.comp))
    /\ ref' = [ref EXCEPT ![k] = v]
    /\ bio' = [NoIo EXCEPT !.op = "put", !.k = k, !.v = v]
    /\ UNCHANGED <<bdb, nonByteVars>>

\* Database::del(key).
BytesDel(k) ==
    /\ bdb.st = "open"
    /\ LET hit == Under(raw, load_value(k, FALSE))
       IN  /\ raw' = raw \ hit
           /\ bio' = [NoIo EXCEPT !.op = "del", !.k = k,
                                  !.err = IF hit = {} THEN LMDB_NOTFOUND ELSE SUCCESS]
    /\ ref' = [ref EXCEPT ![k] = Absent]
    /\ UNCHANGED <<bdb, nonByteVars>>

\* Database::drop(false).
BytesDrop ==
    /\ bdb.st = "open"
    /\ raw' = {}
    /\ ref' = [k \in ByteStrings |-> Absent]
    /\ bio' = [NoIo EXCEPT !.op = "drop"]
    /\ UNCHANGED <<bdb, nonByteVars>>

\* Database::get(key) and Transaction::get(key).
BytesGet(k) ==
    /\ bdb.st = "open"
    /\ LET r == Transaction_get(raw, k)
       IN  bio' = [NoIo EXCEPT !.op = "get", !.k = k, !.err = r.err, !.val = r.val]
    /\ UNCHANGED <<bdb, raw, ref, nonByteVars>>

\* Database::exists(key).
BytesExists(k) ==
    /\ bdb.st = "open"
    /\ bio' = [NoIo EXCEPT !.op = "exists", !.k = k,
                           !.found = (Under(raw, load_value(k, FALSE)) # {})]
    /\ UNCHANGED <<bdb, raw, ref, nonByteVars>>

\* Cursor::get(key, MDB_SET) on a cursor of a fresh read-only transaction.
BytesCursorGet(k) ==
    /\ bdb.st = "open"
    /\ LET r == Cursor_get(raw, k)
       IN  bio' = [NoIo EXCEPT !.op = "cget", !.k = k, !.err = r.err, !.key = r.key,
                               !.val = r.val]
    /\ UNCHANGED <<bdb, raw, ref, nonByteVars>>

\* Cursor::get_all(key).
BytesCursorGetAll(k) ==
    /\ bdb.st = "open"
    /\ LET r == Cursor_get_all(raw, k)
       IN  bio' = [NoIo EXCEPT !.op = "cget_all", !.k = k, !.err = r.err, !.key = r.key,
                               !.list = r.list]
    /\ UNCHANGED <<bdb, raw, ref, nonByteVars>>

\* Database::list_keys(ignore_duplicates).
BytesListKeys(ign) ==
    /\ bdb.st = "open"
    /\ LET r == list_keys(raw, ign)
       IN  bio' = [NoIo EXCEPT !.op = "list_keys", !.ign = ign, !.how = r.how,
                               !.list = r.list]
    /\ UNCHANGED <<bdb, raw, ref, nonByteVars>>

\* Database::count().
BytesCount ==
    /\ bdb.st = "open"
    /\ bio' = [NoIo EXCEPT !.op = "count", !.n = count(raw)]
    /\ UNCHANGED <<bdb, raw, ref, nonByteVars>>

\* The calls that read the keyspace or empty it, with keys from KS.
BytesStep(KS) ==
    \/ \E k \in KS : BytesDel(k)
    \/ BytesDrop
    \/ \E k \in KS : BytesGet(k)
    \/ \E k \in KS : BytesExists(k)
    \/ \E k \in KS : BytesCursorGet(k)
    \/ \E k \in KS : BytesCursorGetAll(k)
    \/ \E ign \in BOOLEAN : BytesListKeys(ign)
    \/ BytesCount

\* The keys of the specification of a keyspace without duplicates.
PlainKeys == {<<1>>, <<1, 0, 1>>}

(***************************************************************************)
(* SpecBytes: a keyspace without MDB_DUPSORT, every byte string as value.  *)
(***************************************************************************)
NextBytes ==
    \/ \E comp \in BOOLEAN : BytesOpen(comp, FALSE)
    \/ \E k \in PlainKeys, v \in ByteStrings : BytesPut(k, v)
    \/ BytesStep(PlainKeys)

SpecBytes == Init /\ [][NextBytes]_vars

\* The keys and values of the specification of a keyspace with duplicates.
MaxEntries == 3
DupKeys == {<<0>>, <<1>>, <<1, 0, 1>>}
DupVals == {<<0>>, <<1>>}

(***************************************************************************)
(* SpecDup: a keyspace opened with MDB_DUPSORT, holding at most MaxEntries *)
(* entries.                                                                *)
(***************************************************************************)
NextDup ==
    \/ \E comp \in BOOLEAN : BytesOpen(comp, TRUE)
    \/ /\ Cardinality(raw) < MaxEntries
       /\ \E k \in DupKeys, v \in DupVals : BytesPut(k, v)
    \/ BytesStep(DupKeys)

SpecDup == Init /\ [][NextDup]_vars

(***************************************************************************)
(* SpecMap: two threads calling ThreadSafeMap::find_or_insert(key,         *)
(* factory).  A step is one statement of the function.                     *)
(***************************************************************************)
nonMapVars == <<mapsize, open_txns, writer, store, txns, pc, arg, hist, last, present,
                growVars, lockVars, byteVars, regVars, curVars>>

\* The call is made; conc: a call for the same key is running in the other
\* thread.
find_or_insert(t, key) ==
    /\ tsm.fr[t].pc = "idle"
    /\ LET same == {o \in Threads \ {t} : tsm.fr[o].pc # "idle" /\ tsm.fr[o].key = key}
       IN  tsm' = [tsm EXCEPT
                     !.fr = [o \in Threads |->
                               IF o = t
                               THEN [NoCall EXCEPT !.pc = "lock", !.key = key,
                                                   !.conc = (same # {})]
                               ELSE IF o \in same THEN [tsm.fr[o] EXCEPT !.conc = TRUE]
                               ELSE tsm.fr[o]],
                     !.out[t] = NoOut]
    /\ UNCHANGED nonMapVars

F_lock_unguarded(t) ==
    /\ tsm.fr[t].pc = "lock"
    /\ tsm' = [tsm EXCEPT !.fr[t].pc = "find"]
    /\ UNCHANGED nonMapVars

\* std::unique_lock lock(m_mutex);
F_lock(t) ==
    /\ tsm.fr[t].pc = "lock"
    /\ tsm.lock = "free"
    /\ tsm' = [tsm EXCEPT !.lock = t, !.fr[t].pc = "find"]
    /\ UNCHANGED nonMapVars

\* auto it = m_container.find(key); if (it != m_container.end()) return
\* it->second;
F_find(t) ==
    /\ tsm.fr[t].pc = "find"
    /\ LET found == tsm.m[tsm.fr[t].key]
       IN  tsm' = IF found # 0
                  THEN [tsm EXCEPT !.fr[t].pc = "return", !.fr[t].value = found]
                  ELSE [tsm EXCEPT !.fr[t].pc = "factory"]
    /\ UNCHANGED nonMapVars

\* auto value = factory();
F_factory(t) ==
    /\ tsm.fr[t].pc = "factory"
    /\ LET key == tsm.fr[t].key
       IN  tsm' = [tsm EXCEPT !.made[key] = @ + 1, !.fr[t].value = tsm.made[key] + 1,
                              !.fr[t].pc = "insert"]
    /\ UNCHANGED nonMapVars

\* m_container.insert({key, value}): std::map::insert keeps an element that
\* is there.
F_insert(t) ==
    /\ tsm.fr[t].pc = "insert"
    /\ LET key == tsm.fr[t].key
           stored == IF tsm.m[key] = 0 THEN tsm.fr[t].value ELSE tsm.m[key]
       IN  tsm' = [tsm EXCEPT !.m[key] = stored,
                              !.first[key] = IF @ = 0 THEN stored ELSE @,
                              !.fr[t].pc = "return"]
    /\ UNCHANGED nonMapVars

\* return: the lock is released and the caller has its value.
F_return(t) ==
    /\ tsm.fr[t].pc = "return"
    /\ tsm' = [tsm EXCEPT !.lock = IF @ = t THEN "free" ELSE @,
                          !.fr[t] = NoCall,
                          !.out[t] = [key |-> tsm.fr[t].key, value |-> tsm.fr[t].value,
                                      conc |-> tsm.fr[t].conc]]
    /\ UNCHANGED nonMapVars

NextMap ==
    \E t \in Threads :
        \/ \E key \in MapKeys : find_or_insert(t, key)
        \/ F_lock(t)
        \/ F_find(t)
        \/ F_factory(t)
        \/ F_insert(t)
        \/ F_return(t)

SpecMap == Init /\ [][NextMap]_vars

\* C21: in a sequential execution, a call of Environment::instance or
\* Environment::database made while an object is registered for its key
\* never enters the branch that opens an engine environment or keyspace, and
\* returns the registered object, whatever optional arguments it passes.
C21_SecondCallSameObject ==
    /\ frames["t1"].reg # 0 /\ frames["t1"].pc # "idle"
           => frames["t1"].pc \in {"i_contains", "i_at", "d_contains", "d_at"}
    /\ res["t1"].reg # 0
           => /\ res["t1"].how = "ok"
              /\ res["t1"].obj = res["t1"].reg

\* A second instance() call passed other arguments than the ones the
\* registered Environment was opened with, and was given that Environment.
C21_Witness ==
    /\ res["t1"].call = "instance"
    /\ res["t1"].reg # 0
    /\ res["t1"].obj = res["t1"].reg
    /\ envs[res["t1"].obj].opts # res["t1"].opts

\* The same for a second database() call.
C21_WitnessDatabase ==
    /\ res["t1"].call = "database"
    /\ res["t1"].reg # 0
    /\ res["t1"].obj = res["t1"].reg
    /\ dbos[res["t1"].obj].opts # res["t1"].opts

\* The last call read the single value stored under its key.
ReadBack ==
    /\ bio.op \in {"get", "cget", "cget_all"}
    /\ ref[bio.k] # Absent

\* The value the last read returned, a get_all being a read of one value.
ValueRead == IF bio.op = "cget_all" /\ Len(bio.list) = 1 THEN bio.list[1] ELSE bio.val

\* C22: decoding the encoding of a byte string V gives V, and on a handle
\* opened with compression a get, Cursor::get or Cursor::get_all of a key
\* succeeds and returns exactly the value that was last put under the key.
C22_CompressedRoundTrip ==
    /\ \A V \in ByteStrings : load_result(load_value(V, TRUE)) = V
    /\ bdb.comp /\ ReadBack
           => /\ bio.err = SUCCESS
              /\ bio.op = "cget_all" => Len(bio.list) = 1
              /\ ValueRead = ref[bio.k]

\* A value that is itself a well-formed snappy stream was written with
\* compression and read back unchanged.
C22_Witness ==
    /\ bdb.comp
    /\ ReadBack
    /\ bio.op = "get"
    /\ Uncompress(ref[bio.k]).ok
    /\ bio.val = ref[bio.k]

\* C23 as stated: on a handle opened without compression a get, Cursor::get
\* or Cursor::get_all of a key returns exactly the value that was last put
\* under the key.
C23_PlainRoundTrip ==
    ~bdb.comp /\ bdb.st = "open" /\ ReadBack
        => /\ bio.err = SUCCESS
           /\ ValueRead = ref[bio.k]

\* C25: a get, Cursor::get or Cursor::get_all that returns a failure
\* returns an empty key, an empty value and an empty list, and a get of a
\* key that is not stored returns LMDB_NOTFOUND.
C25_FailureReturnsEmpty ==
    /\ bio.op \in {"get", "cget", "cget_all"} /\ bio.err # SUCCESS
           => /\ bio.key = <<>>
              /\ bio.val = <<>>
              /\ bio.list = <<>>
    /\ bio.op \in {"get", "cget"} /\ Under(raw, bio.k) = {}
           => bio.err = LMDB_NOTFOUND

\* Cursor::get_all failed on a key that is not stored while another key is.
C25_Witness ==
    /\ bio.op = "cget_all"
    /\ bio.err = LMDB_EMPTY
    /\ raw # {}

\* A get of a key that is not stored failed.
C25_WitnessGet ==
    /\ bio.op = "get"
    /\ bio.err = LMDB_NOTFOUND
    /\ raw # {}

\* The key of every entry of S in cursor order, and every distinct key of S
\* in that order.
EveryKey(S) == [i \in 1..Cardinality(S) |-> Walk(S)[i][1]]
DistinctKeys(S) == EveryKey({<<p[1], <<>>>> : p \in S})

\* C24 as stated: on a keyspace with duplicates list_keys(true) returns
\* every distinct stored key once, in order, and list_keys(false) returns
\* the key of every stored entry, in order.
C24_ListKeysFoldsDuplicates ==
    bio.op = "list_keys"
        => /\ bio.how = "ret"
           /\ bio.list = IF bio.ign THEN DistinctKeys(raw) ELSE EveryKey(raw)

\* The keys of the finite map the puts, dels and drops so far describe.
Present == {k \in ByteStrings : ref[k] # Absent}

\* C26 as stated: on a keyspace without duplicates every call answers as
\* the finite map does: get returns the last value put or LMDB_NOTFOUND,
\* exists tells whether the key is present, count is the number of present
\* keys, list_keys lists each present key once, a del or drop leaves the
\* keys of the map stored.
C26_BehavesLikeFiniteMap ==
    bdb.st = "open" /\ ~bdb.dup
        => /\ {p[1] : p \in raw} = Present
           /\ bio.op = "get"
                  => IF bio.k \in Present
                     THEN bio.err = SUCCESS /\ bio.val = ref[bio.k]
                     ELSE bio.err = LMDB_NOTFOUND
           /\ bio.op = "exists" => (bio.found <=> bio.k \in Present)
           /\ bio.op = "count" => bio.n = Cardinality(Present)
           /\ bio.op = "list_keys"
                  => /\ bio.how = "ret"
                     /\ bio.list = DistinctKeys({<<k, <<>>>> : k \in Present})

\* C27 as stated: Cursor::renew called on a read-only Cursor whose
\* Transaction has been reset and renewed since the Cursor was opened calls
\* the engine.
C27_RenewRebindsReadOnlyCursor ==
    \A c \in CurIds :
        /\ last.op = "crenew"
        /\ curs[c].st = "open"
        /\ curs[c].txn = last.id
        /\ curs[c].ro
        /\ ~curs[c].stale
        /\ ~curs[c].late
        /\ txns[last.id].renewed
        /\ ~txns[last.id].reset
        => last.eng

\* C28: a Transaction::put, Transaction::del, Cursor::put or Cursor::del
\* leaves the map size, the open-transaction counter, the engine's writer,
\* the committed content and the set of Transaction objects as they were,
\* and a put that finds no room returns the engine's map-full or
\* transaction-full condition.
C28_WritesNeitherGrowNorRetry ==
    [][(last' # last /\ last'.op \in {"put", "del", "cput", "cdel"})
          => /\ mapsize' = mapsize
             /\ open_txns' = open_txns
             /\ writer' = writer
             /\ store' = store
             /\ \A i \in TxnIds : txns'[i].st = txns[i].st
             /\ (/\ last'.op \in {"put", "cput"}
                 /\ last'.eng /\ ~last'.stale /\ ~last'.dead
                 /\ ~Blocked(txns[last'.id]) /\ ~txns[last'.id].ro
                 /\ ~HasRoom(txns[last'.id].view, mapsize))
                    => last'.how = "ret" /\ last'.err \in FullCodes]_vars

\* A Transaction::put returned the map-full condition.
C28_Witness ==
    /\ last.op = "put"
    /\ last.err = LMDB_MAP_FULL
    /\ \E id \in UserTxn : Live(id) /\ txns[id].bad

\* A Cursor::put returned the transaction-full condition.
C28_WitnessCursor ==
    /\ last.op = "cput"
    /\ last.err = LMDB_TXN_FULL

\* C29: the construction of a Transaction calls mdb_txn_begin between one
\* and three times and detect_map_size() at most twice; every answer before
\* the last was LMDB_MAP_RESIZED and was followed by one detect_map_size();
\* it throws exactly when the last answer was not a success, and then the
\* open-transaction counter is as before; when it succeeds the counter is
\* one higher for a read-write Transaction and as before for a read-only
\* one.
C29_SetupBoundedRetries ==
    [][(last' # last /\ last'.op \in {"open", "dbget"})
          => LET n == Len(last'.rs)
             IN  /\ n \in 1..3
                 /\ last'.detects <= 2
                 /\ last'.detects \in {n - 1, n}
                 /\ \A i \in 1..(n - 1) : last'.rs[i] = LMDB_MAP_RESIZED
                 /\ last'.how = "throw" <=> last'.rs[n] # SUCCESS
                 /\ last'.detects = n => last'.rs[n] = LMDB_MAP_RESIZED
                 /\ last'.how = "throw" => open_txns' = open_txns /\ txns' = txns
                 /\ last'.how = "ret" /\ last'.op = "open"
                        => open_txns' = open_txns
                                           + (IF txns'[last'.id].ro THEN 0 ELSE 1)]_vars

\* A construction gave up after the third LMDB_MAP_RESIZED.
C29_Witness ==
    /\ last.op = "open"
    /\ last.how = "throw"
    /\ last.rs = <<LMDB_MAP_RESIZED, LMDB_MAP_RESIZED, LMDB_MAP_RESIZED>>
    /\ last.detects = 2

\* A construction gave up because detect_map_size() failed.
C29_WitnessDetect ==
    /\ last.how = "throw"
    /\ last.rs = <<LMDB_MAP_RESIZED>>
    /\ last.detects = 1

\* A read-write construction succeeded at the third mdb_txn_begin.
C29_WitnessThird ==
    /\ last.op = "open"
    /\ last.how = "ret"
    /\ Len(last.rs) = 3
    /\ open_txns = 1

\* C30: under every interleaving of find_or_insert calls the factory has
\* run at most once for a key, the value stored under a key is the one that
\* was stored first, and every call has returned that value.
C30_FindOrInsertAtomic ==
    /\ \A key \in MapKeys : tsm.made[key] <= 1
    /\ \A key \in MapKeys : tsm.first[key] # 0 => tsm.m[key] = tsm.first[key]
    /\ \A t \in Threads :
          tsm.out[t].value # 0 => tsm.out[t].value = tsm.first[tsm.out[t].key]

\* Two calls for the same key ran at the same time and returned the same
\* value, made by the one factory run.
C30_Witness ==
    \E key \in MapKeys :
        /\ tsm.made[key] = 1
        /\ \A t \in Threads :
              /\ tsm.out[t].key = key
              /\ tsm.out[t].conc
              /\ tsm.out[t].value = tsm.first[key]
              /\ tsm.out[t].value # 0

\* C31: on one Environment at most one thread is inside expand,
\* detect_map_size, copy, flush or set_flags at a time, the thread inside
\* holds the mutex, and while expand is between reading the map size and
\* setting it, the map size is still the one it read.
C31_GrowthCallsExclusive ==
    /\ \A t1 \in Threads, t2 \in Threads : Inside(t1) /\ Inside(t2) => t1 = t2
    /\ \A t \in Threads : Inside(t) => envMutex = t
    /\ \A t \in Threads :
          g[t].pc = "m_set" /\ g[t].call = "expand" => g[t].size = mapsize

\* One thread is inside expand(pages) after reading a map size that was
\* grown before, and the other thread has returned from detect_map_size.
C31_Witness ==
    \E t \in Threads :
        /\ g[t].pc = "m_set"
        /\ g[t].call = "expand"
        /\ g[t].pages > 0
        /\ g[t].size > GrowthMB * LMDB_SPACE_MULTIPLIER
        /\ \E o \in Threads \ {t} : g[o].pc = "idle" /\ g[o].call = "detect"

\* C32: a successful expand(pages) leaves the map size at the previous size
\* plus pages times the page size, a successful expand() at the previous size
\* plus the growth factor in MB rounded up to whole pages, and no expand
\* lowers the map size.
C32_ExpandAddsPages ==
    [][/\ \A pages \in WidePages :
              ExpandPagesCall(pages) /\ last'.err = SUCCESS
                  => mapsize' = mapsize + (pages * PageSize)
       /\ ExpandCall /\ last'.err = SUCCESS
              => mapsize' = mapsize
                     + (memory_to_pages(GrowthMB * LMDB_SPACE_MULTIPLIER) * PageSize)
       /\ last'.op \in {"expand", "expand_pages"} /\ last' # last
              => mapsize' >= mapsize]_vars

\* As C32 for the page counts whose product with the page size, added to
\* the map size, fits a size_t.
C32_ExpandAddsPagesInRange ==
    [][/\ \A pages \in WidePages :
              (/\ ExpandPagesCall(pages)
               /\ last'.err = SUCCESS
               /\ mapsize + (pages * PageSize) < SizeModulus)
                  => mapsize' = mapsize + (pages * PageSize)
       /\ ExpandCall /\ last'.err = SUCCESS
              => mapsize' = mapsize
                     + (memory_to_pages(GrowthMB * LMDB_SPACE_MULTIPLIER) * PageSize)]_vars

\* C33: the compression flag of a Database object never changes; at most
\* one live Database exists for a name of an Environment, so the flag of the
\* name is the one given when it was first created; a database(name, flag)
\* call made while a Database is registered returns that Database, whatever
\* flag it passes, and the re-lookup of transaction() returns the Database
\* it was called on.
C33_CompressionFixedAtCreation ==
    /\ [][\A d \in DbIds :
              dbos[d].st = "alive" /\ dbos'[d].st = "alive"
                  => Database_compressed(d)' = Database_compressed(d)]_vars
    /\ [](\A d1 \in DbIds, d2 \in DbIds :
              /\ dbos[d1].st = "alive" /\ dbos[d2].st = "alive"
              /\ dbos[d1].name = dbos[d2].name /\ dbos[d1].owner = dbos[d2].owner
              => d1 = d2)
    /\ [](res["t1"].call = "database" /\ res["t1"].reg # 0
              => /\ res["t1"].how = "ok"
                 /\ res["t1"].obj = res["t1"].reg
                 /\ dbos[res["t1"].obj].st = "alive")
    /\ [](res["t1"].call = "transaction"
              => /\ res["t1"].how = "ok"
                 /\ res["t1"].obj = res["t1"].on
                 /\ dbos[res["t1"].obj].st = "alive")

\* A Database was created with one flag, database(name, other flag) was
\* called afterwards, and then transaction() on the handle returned the
\* Database with the flag of its creation.
C33_Witness ==
    /\ res["t1"].call = "transaction"
    /\ res["t1"].how = "ok"
    /\ res["t1"].obj = res["t1"].on
    /\ Database_compressed(res["t1"].obj) = "other"

\* A database(name, flag) call passed another flag than the registered
\* Database was created with and was given that Database.
C33_WitnessOtherFlag ==
    /\ res["t1"].call = "database"
    /\ res["t1"].reg # 0
    /\ res["t1"].opts = "default"
    /\ Database_compressed(res["t1"].obj) = "other"

\* C34: every registry entry refers to an object that has not been torn
\* down, and a step that tears an object down removes the entry for its key
\* only if the entry refers to that object: an entry that disappears while
\* its registry lives on is the entry of an object torn down in that step.
C34_EntriesLiveAndErasedByIdentity ==
    /\ [](\A p \in Paths :
              environments[p] # 0 => envs[environments[p]].st = "open")
    /\ [](\A e \in EnvIds, n \in Names :
              envs[e].st = "open" /\ envs[e].dbs[n] # 0
                  => dbos[envs[e].dbs[n]].st = "alive")
    /\ [][\A p \in Paths :
              environments[p] # 0 /\ environments'[p] = 0
                  => envs'[environments[p]].st # "open"]_vars
    /\ [][\A e \in EnvIds, n \in Names :
              /\ envs[e].dbs[n] # 0 /\ envs'[e].dbs[n] = 0
              /\ envs[e].st = "open" /\ envs'[e].st = "open"
              => dbos'[envs[e].dbs[n]].st # "alive"]_vars

\* C35: no deadlock between the Database handle lock and the engine's
\* writer lock: a thread that holds an open read-write Transaction and has
\* called get, exists, count or transaction(readonly) on the Database is
\* never waiting for Database::mutex while the thread that holds the mutex
\* is waiting for the writer lock.
C35_NoHandleWriterDeadlock ==
    \A a \in Threads, b \in Threads :
        ~ /\ g[a].rw
          /\ writer = Slot(a)
          /\ g[a].pc = "l_lock"
          /\ dbMutex = b
          /\ g[b].pc = "l_begin"
          /\ ~g[b].ro

\* C36: a teardown of an Environment always runs to completion: no thread
\* hangs inside a destructor waiting for a lock it holds itself, so no
\* Environment stays half torn down and no registry lock stays held.
C36_TeardownRunsToCompletion ==
    /\ \A e \in EnvIds : envs[e].st # "dying"
    /\ \A t \in Threads : frames[t].pc # "hung"
    /\ stuck = {}

\* C37: with two threads calling Database::put and Database::del, a full
\* condition is never returned to the caller because expand() found a
\* read-write Transaction registered: such a Transaction can only be
\* another thread's, the caller's own having been aborted before.
C37_FullNotReturnedForOthersTransaction ==
    \A t \in Threads :
        ~ /\ g[t].pc = "idle"
          /\ g[t].call \in {"put", "del"}
          /\ g[t].ret \in FullCodes
          /\ g[t].seen # 0

\* C38: every engine environment handle Environment::instance created is
\* closed exactly once and is not used after it was closed: no handle is
\* closed twice, none is passed to the engine after its close, and an
\* Environment whose teardown is over has had its handle closed.
C38_HandleClosedOnce ==
    \A e \in EnvIds :
        /\ envs[e].closes <= 1
        /\ ~envs[e].late
        /\ envs[e].st = "closed" => envs[e].closes = 1

\* C39: list_keys with either setting and count terminate on every
\* keyspace content, and visit each stored entry exactly once: count returns
\* the number of stored entries and list_keys(false) lists as many keys.
C39_TraversalsTerminate ==
    /\ bio.op = "list_keys"
           => /\ bio.how = "ret"
              /\ ~bio.ign => Len(bio.list) = Cardinality(raw)
    /\ bio.op = "count"
           => /\ bio.how = "ret"
              /\ bio.n = Cardinality(raw)

\* C40: the key Cursor::get and Cursor::get_all return for an entry is
\* byte for byte the key that was put, whatever the compression flag, and
\* every key list_keys returns is found by get.
C40_KeysReadBackUnchanged ==
    /\ bio.op \in {"cget", "cget_all"} /\ bio.err = SUCCESS => bio.key = bio.k
    /\ bio.op = "list_keys"
           => \A i \in 1..Len(bio.list) :
                 Transaction_get(raw, bio.list[i]).err = SUCCESS
====
